---- MODULE Spec2Model ----
(***************************************************************************)
(* Blueprint graph editor (BlueprintCreator) and interactive graph         *)
(* visualizer (BlueprintVisualizer): graph model, viewport transform and   *)
(* the pointer-driven interaction handlers.                                *)
(*                                                                         *)
(* Numbers that JavaScript keeps as doubles (coordinates, scale) are exact *)
(* rationals <<num, den>> with den > 0, in lowest terms.  Strings that the *)
(* code trims, lower-cases or concatenates are sequences of one-character  *)
(* strings.  A nullable React state is a sequence of length 0 or 1.        *)
(***************************************************************************)
EXTENDS Integers, Sequences, FiniteSets, TLC

(* ------------------------------ bounds -------------------------------- *)

\* number of ids generateId may hand out in one behaviour
MaxIds == 5
\* ids generateId hands out in the function tab
MaxFuncIds == 7
\* length of the variable list, the event list and the function list
MaxVars == 3
MaxEvents == 1
MaxFuncs == 2
\* parameters in the function form
MaxParams == 1
\* pointer-down and wheel events in one behaviour of the visualizer: of a
\* session with node gestures, and of a zoom-and-pan session
MaxInputs == 2
MaxZoomInputs == 3
\* the same, in a session that watches the rendered scene
MaxRenderInputs == 1
\* generation requests issued in one run
MaxRequests == 3

(* ----------------------------- rationals ------------------------------ *)

RECURSIVE GCD(_, _)
GCD(a, b) == IF b = 0 THEN a ELSE GCD(b, a % b)

Abs(n) == IF n < 0 THEN -n ELSE n

Norm(n, d) ==
    LET s == IF d < 0 THEN -1 ELSE 1
        g == GCD(Abs(n), Abs(d))
    IN  <<(s * n) \div g, (s * d) \div g>>

Q(n) == <<n, 1>>
RAdd(a, b) == Norm(a[1] * b[2] + b[1] * a[2], a[2] * b[2])
RSub(a, b) == Norm(a[1] * b[2] - b[1] * a[2], a[2] * b[2])
RMul(a, b) == Norm(a[1] * b[1], a[2] * b[2])
RDiv(a, b) == Norm(a[1] * b[2], a[2] * b[1])
RLess(a, b) == a[1] * b[2] < b[1] * a[2]
RLeq(a, b) == a[1] * b[2] <= b[1] * a[2]
RMin(a, b) == IF RLess(b, a) THEN b ELSE a
RMax(a, b) == IF RLess(a, b) THEN b ELSE a
RAbs(a) == <<Abs(a[1]), a[2]>>

(* ------------------------------ strings ------------------------------- *)

UpperCase == {"A", "B", "C", "D", "E", "F", "G", "H", "I", "J", "K", "L", "M",
              "N", "O", "P", "Q", "R", "S", "T", "U", "V", "W", "X", "Y", "Z"}

LowerChar(c) ==
    CASE c = "A" -> "a" [] c = "B" -> "b" [] c = "C" -> "c" [] c = "D" -> "d"
      [] c = "E" -> "e" [] c = "F" -> "f" [] c = "G" -> "g" [] c = "H" -> "h"
      [] c = "I" -> "i" [] c = "J" -> "j" [] c = "K" -> "k" [] c = "L" -> "l"
      [] c = "M" -> "m" [] c = "N" -> "n" [] c = "O" -> "o" [] c = "P" -> "p"
      [] c = "Q" -> "q" [] c = "R" -> "r" [] c = "S" -> "s" [] c = "T" -> "t"
      [] c = "U" -> "u" [] c = "V" -> "v" [] c = "W" -> "w" [] c = "X" -> "x"
      [] c = "Y" -> "y" [] c = "Z" -> "z" [] OTHER -> c

\* String.prototype.toLowerCase
toLowerCase(s) == [i \in 1..Len(s) |-> LowerChar(s[i])]

IsSpace(c) == c = " "

RECURSIVE TrimStart(_)
TrimStart(s) ==
    IF s # <<>> /\ IsSpace(Head(s)) THEN TrimStart(Tail(s)) ELSE s

RECURSIVE TrimEnd(_)
TrimEnd(s) ==
    IF s # <<>> /\ IsSpace(s[Len(s)]) THEN TrimEnd(SubSeq(s, 1, Len(s) - 1)) ELSE s

\* String.prototype.trim
trim(s) == TrimEnd(TrimStart(s))

S_Get == <<"G", "e", "t", " ">>
S_Set == <<"S", "e", "t", " ">>
S_Param == <<"P", "a", "r", "a", "m">>
S_PlayerHealth == <<"P", "l", "a", "y", "e", "r", "H", "e", "a", "l", "t", "h">>
S_IsAlive == <<"I", "s", "A", "l", "i", "v", "e">>
S_EventBeginPlay == <<"E", "v", "e", "n", "t", " ", "B", "e", "g", "i", "n", "P", "l", "a", "y">>
S_PrintString == <<"P", "r", "i", "n", "t", " ", "S", "t", "r", "i", "n", "g">>
S_ReturnValue == <<"R", "e", "t", "u", "r", "n", " ", "V", "a", "l", "u", "e">>

\* decimal rendering of a small non-negative number inside a template string
NumStr(n) ==
    LET d == <<"0", "1", "2", "3", "4", "5", "6", "7", "8", "9">>
    IN  IF n < 10 THEN <<d[n + 1]>> ELSE <<d[(n \div 10) + 1], d[(n % 10) + 1]>>

(* --------------------------- sequence helpers ------------------------- *)

\* Array.prototype.filter / map / some
Filter(s, Test(_)) == SelectSeq(s, Test)

Map(s, F(_)) == [i \in 1..Len(s) |-> F(s[i])]

Some(s, Test(_)) == \E i \in 1..Len(s) : Test(s[i])

Range(s) == {s[i] : i \in 1..Len(s)}

Null == <<>>
Just(v) == <<v>>

(* --------------------------- the graph model --------------------------- *)

\* The literal nodes' properties field is never read by the handlers below
\* and is left out of the node records.
initialGraphData ==
  [nodes |-> <<
    [id |-> <<"node", 1>>, name |-> <<"E", "v", "e", "n", "t", " ", "B", "e", "g", "i", "n", "P", "l", "a", "y">>, type |-> "event", x |-> Q(50), y |-> Q(200),
     pins |-> <<[id |-> <<"pin", 1>>, name |-> <<>>, type |-> "exec", direction |-> "out", dataType |-> "Exec"]>>],
    [id |-> <<"node", 2>>, name |-> <<"P", "r", "i", "n", "t", " ", "S", "t", "r", "i", "n", "g">>, type |-> "function", x |-> Q(350), y |-> Q(180),
     pins |-> <<[id |-> <<"pin", 2>>, name |-> <<>>, type |-> "exec", direction |-> "in", dataType |-> "Exec"],
               [id |-> <<"pin", 3>>, name |-> <<>>, type |-> "exec", direction |-> "out", dataType |-> "Exec"],
               [id |-> <<"pin", 4>>, name |-> <<"I", "n", " ", "S", "t", "r", "i", "n", "g">>, type |-> "data", direction |-> "in", dataType |-> "String"]>>],
    [id |-> <<"node", 3>>, name |-> <<"H", "e", "l", "l", "o", " ", "W", "o", "r", "l", "d">>, type |-> "literal", x |-> Q(50), y |-> Q(350),
     pins |-> <<[id |-> <<"pin", 5>>, name |-> <<"V", "a", "l", "u", "e">>, type |-> "data", direction |-> "out", dataType |-> "String"]>>],
    [id |-> <<"node", 4>>, name |-> <<"S", "e", "t", " ", "H", "e", "a", "l", "t", "h">>, type |-> "function", x |-> Q(950), y |-> Q(250),
     pins |-> <<[id |-> <<"pin", 6>>, name |-> <<>>, type |-> "exec", direction |-> "in", dataType |-> "Exec"],
               [id |-> <<"pin", 7>>, name |-> <<"N", "e", "w", " ", "H", "e", "a", "l", "t", "h">>, type |-> "data", direction |-> "in", dataType |-> "Integer"]>>],
    [id |-> <<"node", 5>>, name |-> <<"F", "o", "r", " ", "L", "o", "o", "p">>, type |-> "flow_control", x |-> Q(650), y |-> Q(180),
     pins |-> <<[id |-> <<"pin", 8>>, name |-> <<>>, type |-> "exec", direction |-> "in", dataType |-> "Exec"],
               [id |-> <<"pin", 9>>, name |-> <<"F", "i", "r", "s", "t", " ", "I", "n", "d", "e", "x">>, type |-> "data", direction |-> "in", dataType |-> "Integer"],
               [id |-> <<"pin", 10>>, name |-> <<"L", "a", "s", "t", " ", "I", "n", "d", "e", "x">>, type |-> "data", direction |-> "in", dataType |-> "Integer"],
               [id |-> <<"pin", 11>>, name |-> <<"L", "o", "o", "p", " ", "B", "o", "d", "y">>, type |-> "exec", direction |-> "out", dataType |-> "Exec"],
               [id |-> <<"pin", 12>>, name |-> <<"I", "n", "d", "e", "x">>, type |-> "data", direction |-> "out", dataType |-> "Integer"],
               [id |-> <<"pin", 13>>, name |-> <<"C", "o", "m", "p", "l", "e", "t", "e", "d">>, type |-> "exec", direction |-> "out", dataType |-> "Exec"]>>],
    [id |-> <<"node", 6>>, name |-> <<"0">>, type |-> "literal", x |-> Q(400), y |-> Q(300),
     pins |-> <<[id |-> <<"pin", 14>>, name |-> <<"V", "a", "l", "u", "e">>, type |-> "data", direction |-> "out", dataType |-> "Integer"]>>],
    [id |-> <<"node", 7>>, name |-> <<"9">>, type |-> "literal", x |-> Q(400), y |-> Q(400),
     pins |-> <<[id |-> <<"pin", 15>>, name |-> <<"V", "a", "l", "u", "e">>, type |-> "data", direction |-> "out", dataType |-> "Integer"]>>]
   >>,
   connections |-> <<
    [fromPinId |-> <<"pin", 1>>, toPinId |-> <<"pin", 2>>],
    [fromPinId |-> <<"pin", 5>>, toPinId |-> <<"pin", 4>>],
    [fromPinId |-> <<"pin", 3>>, toPinId |-> <<"pin", 8>>],
    [fromPinId |-> <<"pin", 11>>, toPinId |-> <<"pin", 6>>],
    [fromPinId |-> <<"pin", 12>>, toPinId |-> <<"pin", 7>>],
    [fromPinId |-> <<"pin", 14>>, toPinId |-> <<"pin", 9>>],
    [fromPinId |-> <<"pin", 15>>, toPinId |-> <<"pin", 10>>]
   >>,
   variables |-> <<[name |-> S_PlayerHealth, type |-> "Integer"],
                   [name |-> S_IsAlive, type |-> "Boolean"]>>]

variableTypes ==
    <<"Boolean", "Integer", "Float", "String", "Vector", "Rotator", "Transform", "Name">>

\* Two entries of the node library: a flow-control node, and the utility
\* node whose name the built-in template also uses.
nodeLibrary == <<
    [name |-> <<"B", "r", "a", "n", "c", "h">>, type |-> "flow_control",
     pins |-> <<[name |-> <<>>, type |-> "exec", direction |-> "in", dataType |-> "Exec"],
               [name |-> <<"C", "o", "n", "d", "i", "t", "i", "o", "n">>, type |-> "data", direction |-> "in", dataType |-> "Boolean"],
               [name |-> <<"T", "r", "u", "e">>, type |-> "exec", direction |-> "out", dataType |-> "Exec"],
               [name |-> <<"F", "a", "l", "s", "e">>, type |-> "exec", direction |-> "out", dataType |-> "Exec"]>>],
    [name |-> <<"P", "r", "i", "n", "t", " ", "S", "t", "r", "i", "n", "g">>, type |-> "function",
     pins |-> <<[name |-> <<>>, type |-> "exec", direction |-> "in", dataType |-> "Exec"],
               [name |-> <<>>, type |-> "exec", direction |-> "out", dataType |-> "Exec"],
               [name |-> <<"I", "n", " ", "S", "t", "r", "i", "n", "g">>, type |-> "data", direction |-> "in", dataType |-> "String"]>>]
  >>


(* ------------------------- layout constants --------------------------- *)

NODE_WIDTH == 220
NODE_HEADER_HEIGHT == 30
PIN_HEIGHT == 22
PIN_OFFSET_Y == 10
PADDING == 50

(* ------------------------------- state -------------------------------- *)

VARIABLES
    \* BlueprintCreator (or, for a visualizer shown by the output panel, the
    \* parent's graph value): the graphData prop of the visualizer
    graphData,
    newVariableName, newVariableType,
    customEvents, newEventName,
    customFunctions, newFunctionName, newFunctionParams,
    newFunctionReturnType, editingFunction,
    \* per prefix, the suffix generateId appends next; the suffix stands for
    \* the (time, random) pair of the generated id
    idCounter,
    \* BlueprintVisualizer
    isInteractive, containerRect,
    localGraphData, viewTransform, isPanning, draggingNode, selectedNode,
    interactionStartRef, wasDraggedRef,
    \* the node list from which nodeMap, pinMap and pinToNodeMap were last
    \* filled when the scene now on screen was rendered
    sceneNodes,
    \* the editor handler that ran last
    lastEdit,
    \* the client point of the last pointer or wheel event
    pointer,
    \* history: the largest displacement from the anchor, on either axis, of
    \* the pointer-moves handled since the last pointer-down on a node
    peakDisp,
    \* how many wheel / pointer-down events the visualizer has handled
    nWheel, nDown,
    \* history: the viewport, the selection, the client point and the event
    \* counts at the last pointer-down on the background that started a pan
    panStart,
    \* history: pointer-moves handled since the last pointer-down, up to 2
    nMoves,
    \* App: the mode and the state of the C++-to-Blueprint flow
    mode, cppCode, blueprintGuide, blueprintGraphs, isLoading, error,
    \* BlueprintCreator: the isLoading, error and cppCode state of the
    \* Blueprint-to-C++ flow of the mounted instance
    creatorIsLoading, creatorError, creatorCppCode,
    \* the backend calls awaited by handleGenerate / handleConvertToCpp, and
    \* of these the ones awaited by a BlueprintCreator that has unmounted
    pending, orphaned,
    \* history: how many requests were issued; the requests that were still
    \* unresolved when a later request of the same flow was issued; the
    \* request whose resolution was handled last
    nIssued, superseded, lastResolved,
    \* OutputDisplay: the tab, the index of the graph selected in focus mode
    \* (from 0) and the view mode of the visualizer tab
    activeTab, selectedGraphIndex, viewMode

editorVars == <<graphData, newVariableName, newVariableType, customEvents,
                newEventName, customFunctions, newFunctionName,
                newFunctionParams, newFunctionReturnType, editingFunction,
                idCounter>>
formVars == <<newVariableName, newVariableType, newEventName, newFunctionName,
              newFunctionParams, newFunctionReturnType, editingFunction>>
functionFormVars == <<newFunctionName, newFunctionParams,
                      newFunctionReturnType, editingFunction>>
viewVars == <<isInteractive, containerRect, localGraphData, viewTransform,
              isPanning, draggingNode, selectedNode, interactionStartRef,
              wasDraggedRef>>
countVars == <<pointer, peakDisp, nWheel, nDown, panStart, nMoves>>
displayVars == <<blueprintGuide, blueprintGraphs, isLoading, error,
                 creatorIsLoading, creatorError, creatorCppCode>>
outputVars == <<activeTab, selectedGraphIndex, viewMode>>
appVars == <<mode, cppCode, displayVars, pending, orphaned, nIssued,
             superseded, lastResolved, outputVars>>
vars == <<editorVars, lastEdit, viewVars, sceneNodes, countVars, appVars>>

\* A render of the visualizer.  The maps are refilled by an effect, which
\* runs after the render, so the render that follows a state change reads
\* the maps filled from the node list of the state before it.
Render == sceneNodes' = localGraphData.nodes

\* the render of the visualizer that follows a render of BlueprintCreator,
\* which renders when a handler has changed its state
ParentRender ==
    sceneNodes' = IF editorVars' # editorVars THEN localGraphData.nodes
                  ELSE sceneNodes

(* --------------------------- input domains ---------------------------- *)

VarNameInputs ==
    {<<>>, <<" ">>, <<"H", "p">>, <<" ", "h", "P", " ">>}
EventNameInputs == {<<"E", "v">>, S_EventBeginPlay}
FuncNameInputs == {<<"F">>, <<"f", " ">>, S_PrintString}
TypeInputs == {"Boolean", "Integer"}
ReturnTypeInputs == {"None", "Integer"}

(* ----------------------------- geometry ------------------------------- *)

Count(s, Test(_)) == Len(SelectSeq(s, Test))

MaxInt(a, b) == IF a < b THEN b ELSE a

calculateNodeHeight(node) ==
    LET inputPins == Count(node.pins, LAMBDA p : p.direction = "in")
        outputPins == Count(node.pins, LAMBDA p : p.direction = "out")
    IN  NODE_HEADER_HEIGHT + PIN_OFFSET_Y + MaxInt(inputPins, outputPins) * PIN_HEIGHT

\* Math.min / Math.max folded over a non-empty collection
RMinSet(S) == CHOOSE m \in S : \A v \in S : RLeq(m, v)
RMaxSet(S) == CHOOSE m \in S : \A v \in S : RLeq(v, m)

\* the bounds loop of the auto-fit with the node sizes forgotten
BoundsOfOrigins(nodes) ==
    LET ns == Range(nodes)
    IN  [minX |-> RMinSet({n.x : n \in ns}),
         minY |-> RMinSet({n.y : n \in ns}),
         maxX |-> RMaxSet({n.x : n \in ns}),
         maxY |-> RMaxSet({n.y : n \in ns})]

\* the bounds loop of the auto-fit over a non-empty node list
Bounds(nodes) ==
    LET ns == Range(nodes)
    IN  [minX |-> RMinSet({n.x : n \in ns}),
         minY |-> RMinSet({n.y : n \in ns}),
         maxX |-> RMaxSet({RAdd(n.x, Q(NODE_WIDTH)) : n \in ns}),
         maxY |-> RMaxSet({RAdd(n.y, Q(calculateNodeHeight(n))) : n \in ns})]

\* newX / newY with the bounds taken to start at the origin
FitOffsetFromOrigin(size, extent, min, scale) ==
    RDiv(RSub(Q(size), RMul(extent, scale)), Q(2))

\* newX / newY of the auto-fit
FitOffset(size, extent, min, scale) ==
    RSub(RDiv(RSub(Q(size), RMul(extent, scale)), Q(2)), RMul(min, scale))

\* The auto-fit branch of the graphData effect: the viewport that fits the
\* bounds of g into a container of size cs, or vt when the bounds are empty.
AutoFit(g, cs, vt) ==
    LET b == Bounds(g.nodes)
        graphWidth == RSub(b.maxX, b.minX)
        graphHeight == RSub(b.maxY, b.minY)
        scaleX == RDiv(Q(cs.width - PADDING * 2), graphWidth)
        scaleY == RDiv(Q(cs.height - PADDING * 2), graphHeight)
        scale == RMin(RMin(scaleX, scaleY), Q(1))
        newX == FitOffset(cs.width, graphWidth, b.minX, scale)
        newY == FitOffset(cs.height, graphHeight, b.minY, scale)
    IN  IF RLess(Q(0), graphWidth) /\ RLess(Q(0), graphHeight)
        THEN [x |-> newX, y |-> newY, scale |-> scale]
        ELSE vt

\* EffectViewTransform without the else branch that resets the viewport
EffectViewTransformFitOnly(g, interactive, cs, local, vt) ==
    IF ~interactive /\ Len(g.nodes) > 0 /\ Len(local.nodes) > 0
    THEN AutoFit(g, cs, vt)
    ELSE vt
\* The viewport the graphData effect leaves behind.  containerRef.current is
\* the root element of the previous render, which exists only if the local
\* graph rendered then had nodes.
EffectViewTransform(g, interactive, cs, local, vt) ==
    IF ~interactive
    THEN IF Len(g.nodes) > 0 /\ Len(local.nodes) > 0
         THEN AutoFit(g, cs, vt)
         ELSE vt
    ELSE [x |-> Q(50), y |-> Q(50), scale |-> Q(1)]

\* useEffect(..., [graphData, isInteractive]) of the visualizer, run for the
\* new graph value g
GraphDataEffect(g) ==
    /\ localGraphData' = g
    /\ selectedNode' = Null
    /\ Render
    /\ viewTransform' = EffectViewTransform(g, isInteractive, containerRect,
                                            localGraphData, viewTransform)
    /\ UNCHANGED <<isInteractive, containerRect, isPanning, draggingNode,
                   interactionStartRef, wasDraggedRef>>

(* ------------------------- BlueprintCreator --------------------------- *)

\* `${prefix}-${Date.now()}-${random}`; n stands for the suffix, and the
\* template's ids ("node-1", "pin-15") have no suffix of that form
generateId(prefix, n) == <<prefix, "gen", n>>

IdPrefixes == {"node", "pin", "param", "eventDef", "funcDef"}

\* the ids the next calls of generateId return, j = 0, 1, ...
NodeId == generateId("node", idCounter["node"])
PinIdRepeated(j) == generateId("pin", idCounter["pin"])
PinId(j) == generateId("pin", idCounter["pin"] + j)

\* idCounter after nodes node ids and pins pin ids have been handed out
Advance(nodes, pins) ==
    [idCounter EXCEPT !["node"] = @ + nodes, !["pin"] = @ + pins]

PinIds(nodes) == UNION {{p.id : p \in Range(n.pins)} : n \in Range(nodes)}

\* RemoveNodes with the connection filter forgotten
RemoveNodesKeepingConnections(prev, nodesToRemove) ==
    [prev EXCEPT
       !.nodes = Filter(prev.nodes,
                   LAMBDA n : ~Some(nodesToRemove, LAMBDA r : r.id = n.id))]

\* prev.nodes.filter(n => !nodesToRemove.some(removed => removed.id === n.id))
\* and prev.connections.filter(c => !pinsToRemove.has(..) && !pinsToRemove.has(..))
RemoveNodes(prev, nodesToRemove) ==
    LET pinsToRemove == PinIds(nodesToRemove)
    IN  [prev EXCEPT
           !.nodes = Filter(prev.nodes,
                       LAMBDA n : ~Some(nodesToRemove, LAMBDA r : r.id = n.id)),
           !.connections = Filter(prev.connections,
                       LAMBDA c : c.fromPinId \notin pinsToRemove
                                  /\ c.toPinId \notin pinsToRemove)]

SetNewVariableName(inputs) ==
    \E name \in inputs :
        /\ newVariableName' = name
        /\ lastEdit' = "setNewVariableName"
        /\ UNCHANGED <<graphData, newVariableType, customEvents, newEventName,
                       customFunctions, functionFormVars, idCounter,
                       viewVars, countVars, appVars>>
        /\ ParentRender

SetNewVariableType(inputs) ==
    \E t \in inputs :
        /\ newVariableType' = t
        /\ lastEdit' = "setNewVariableType"
        /\ UNCHANGED <<graphData, newVariableName, customEvents, newEventName,
                       customFunctions, functionFormVars, idCounter,
                       viewVars, countVars, appVars>>
        /\ ParentRender

\* AddVariableRejected comparing names without lower-casing them
AddVariableRejectedCaseSensitive(trimmedName, variables) ==
    \/ trimmedName = <<>>
    \/ Some(variables, LAMBDA v : v.name = trimmedName)

\* AddVariableRejected without the test for an empty name
AddVariableRejectedDuplicateOnly(trimmedName, variables) ==
    Some(variables, LAMBDA v : toLowerCase(v.name) = toLowerCase(trimmedName))

AddVariableRejected(trimmedName, variables) ==
    \/ trimmedName = <<>>
    \/ Some(variables, LAMBDA v : toLowerCase(v.name) = toLowerCase(trimmedName))

handleAddVariable ==
    LET trimmedName == trim(newVariableName)
        newVariable == [name |-> trimmedName, type |-> newVariableType]
    IN  /\ lastEdit' = "handleAddVariable"
        /\ IF AddVariableRejected(trimmedName, graphData.variables)
           THEN UNCHANGED <<graphData, newVariableName, viewVars, sceneNodes>>
           ELSE /\ Len(graphData.variables) < MaxVars
                /\ graphData' = [graphData EXCEPT
                                   !.variables = Append(@, newVariable)]
                /\ newVariableName' = <<>>
                /\ GraphDataEffect(graphData')
        /\ UNCHANGED <<newVariableType, customEvents, newEventName,
                       customFunctions, functionFormVars, idCounter, countVars, appVars>>

\* VariableNodesToRemove matching the "Get" nodes only
VariableNodesToRemoveGetOnly(nodes, variableName) ==
    Filter(nodes, LAMBDA n :
        /\ (n.type = "variable_get" \/ n.type = "variable_set")
        /\ n.name = S_Get \o variableName)

VariableNodesToRemove(nodes, variableName) ==
    Filter(nodes, LAMBDA n :
        /\ (n.type = "variable_get" \/ n.type = "variable_set")
        /\ (n.name = S_Get \o variableName \/ n.name = S_Set \o variableName))

DeleteVariable(prev, variableName) ==
    LET nodesToRemove == VariableNodesToRemove(prev.nodes, variableName)
        kept == RemoveNodes(prev, nodesToRemove)
    IN  [kept EXCEPT
           !.variables = Filter(prev.variables, LAMBDA v : v.name # variableName)]

handleDeleteVariable ==
    \E i \in 1..Len(graphData.variables) :
        /\ graphData' = DeleteVariable(graphData, graphData.variables[i].name)
        /\ GraphDataEffect(graphData')
        /\ lastEdit' = "handleDeleteVariable"
        /\ UNCHANGED <<formVars, customEvents, customFunctions, idCounter,
                       countVars, appVars>>

VariableNode(variable, type) ==
    IF type = "get"
    THEN [id |-> NodeId, name |-> S_Get \o variable.name,
          type |-> "variable_get", x |-> Q(250), y |-> Q(250),
          pins |-> <<[id |-> PinId(0), name |-> <<"V", "a", "l", "u", "e">>,
                      type |-> "data", direction |-> "out",
                      dataType |-> variable.type]>>]
    ELSE [id |-> NodeId, name |-> S_Set \o variable.name,
          type |-> "variable_set", x |-> Q(250), y |-> Q(250),
          pins |-> <<[id |-> PinId(0), name |-> <<>>,
                      type |-> "exec", direction |-> "in", dataType |-> "Exec"],
                     [id |-> PinId(1), name |-> <<>>,
                      type |-> "exec", direction |-> "out", dataType |-> "Exec"],
                     [id |-> PinId(2), name |-> variable.name,
                      type |-> "data", direction |-> "in",
                      dataType |-> variable.type]>>]

RECURSIVE SumOver(_, _)
SumOver(f, S) ==
    IF S = {} THEN 0
    ELSE LET p == CHOOSE q \in S : TRUE IN f[p] + SumOver(f, S \ {p})

\* AddNode putting the new node first
AddNodeFirst(prev, newNode) == [prev EXCEPT !.nodes = <<newNode>> \o @]

\* setGraphData(prev => ({...prev, nodes: [...prev.nodes, newNode]}))
AddNode(prev, newNode) == [prev EXCEPT !.nodes = Append(@, newNode)]

\* generateId may still hand out n ids when maxIds bounds the ids handed out
IdsLeft(n, maxIds) == SumOver(idCounter, IdPrefixes) + n <= maxIds

handleAddVariableNode(maxIds) ==
    \E i \in 1..Len(graphData.variables), type \in {"get", "set"} :
        LET pins == IF type = "get" THEN 1 ELSE 3
            newNode == VariableNode(graphData.variables[i], type)
        IN  /\ IdsLeft(1 + pins, maxIds)
            /\ idCounter' = Advance(1, pins)
            /\ graphData' = AddNode(graphData, newNode)
            /\ GraphDataEffect(graphData')
            /\ lastEdit' = "handleAddVariableNode"
            /\ UNCHANGED <<formVars, customEvents, customFunctions, countVars, appVars>>


SetNewEventName(inputs) ==
    \E name \in inputs :
        /\ newEventName' = name
        /\ lastEdit' = "setNewEventName"
        /\ UNCHANGED <<graphData, newVariableName, newVariableType, customEvents,
                       customFunctions, functionFormVars, idCounter,
                       viewVars, countVars, appVars>>
        /\ ParentRender

\* NameTaken comparing the names as written
NameTakenCaseSensitive(defs, trimmedName) ==
    Some(defs, LAMBDA d : d.name = trimmedName)

NameTaken(defs, trimmedName) ==
    Some(defs, LAMBDA d : toLowerCase(d.name) = toLowerCase(trimmedName))

handleAddEvent(maxIds) ==
    LET trimmedName == trim(newEventName)
    IN  /\ lastEdit' = "handleAddEvent"
        /\ IF trimmedName = <<>> \/ NameTaken(customEvents, trimmedName)
           THEN UNCHANGED <<customEvents, newEventName, idCounter>>
           ELSE /\ Len(customEvents) < MaxEvents
                /\ IdsLeft(1, maxIds)
                /\ customEvents' = Append(customEvents,
                       [id |-> generateId("eventDef", idCounter["eventDef"]),
                        name |-> trimmedName])
                /\ idCounter' = [idCounter EXCEPT !["eventDef"] = @ + 1]
                /\ newEventName' = <<>>
        /\ UNCHANGED <<graphData, newVariableName, newVariableType,
                       customFunctions, functionFormVars, viewVars, countVars, appVars>>
        /\ ParentRender

handleDeleteEvent ==
    \E i \in 1..Len(customEvents) :
        LET eventToDelete == customEvents[i]
            nodesToRemove == Filter(graphData.nodes, LAMBDA n :
                                 n.type = "event" /\ n.name = eventToDelete.name)
        IN  /\ customEvents' = Filter(customEvents,
                                      LAMBDA e : e.id # eventToDelete.id)
            /\ graphData' = RemoveNodes(graphData, nodesToRemove)
            /\ GraphDataEffect(graphData')
            /\ lastEdit' = "handleDeleteEvent"
            /\ UNCHANGED <<formVars, customFunctions, idCounter, countVars, appVars>>

handleAddEventNode(maxIds) ==
    \E i \in 1..Len(customEvents) :
        LET newNode == [id |-> NodeId,
                        name |-> customEvents[i].name, type |-> "event",
                        x |-> Q(150), y |-> Q(150),
                        pins |-> <<[id |-> PinId(0),
                                    name |-> <<>>, type |-> "exec",
                                    direction |-> "out", dataType |-> "Exec"]>>]
        IN  /\ IdsLeft(2, maxIds)
            /\ idCounter' = Advance(1, 1)
            /\ graphData' = AddNode(graphData, newNode)
            /\ GraphDataEffect(graphData')
            /\ lastEdit' = "handleAddEventNode"
            /\ UNCHANGED <<formVars, customEvents, customFunctions, countVars, appVars>>

(* function form *)

SetNewFunctionName(inputs) ==
    \E name \in inputs :
        /\ newFunctionName' = name
        /\ lastEdit' = "setNewFunctionName"
        /\ UNCHANGED <<graphData, newVariableName, newVariableType, customEvents,
                       newEventName, customFunctions, newFunctionParams,
                       newFunctionReturnType, editingFunction, idCounter,
                       viewVars, countVars, appVars>>
        /\ ParentRender

SetNewFunctionReturnType(inputs) ==
    \E t \in inputs :
        /\ newFunctionReturnType' = t
        /\ lastEdit' = "setNewFunctionReturnType"
        /\ UNCHANGED <<graphData, newVariableName, newVariableType, customEvents,
                       newEventName, customFunctions, newFunctionName,
                       newFunctionParams, editingFunction, idCounter,
                       viewVars, countVars, appVars>>
        /\ ParentRender

addParam(maxIds) ==
    /\ Len(newFunctionParams) < MaxParams
    /\ IdsLeft(1, maxIds)
    /\ newFunctionParams' = Append(newFunctionParams,
           [id |-> generateId("param", idCounter["param"]),
            name |-> S_Param \o NumStr(Len(newFunctionParams)),
            type |-> "Boolean"])
    /\ idCounter' = [idCounter EXCEPT !["param"] = @ + 1]
    /\ lastEdit' = "addParam"
    /\ UNCHANGED <<graphData, newVariableName, newVariableType, customEvents,
                   newEventName, customFunctions, newFunctionName,
                   newFunctionReturnType, editingFunction, viewVars, countVars, appVars>>
    /\ ParentRender

removeParam ==
    \E i \in 1..Len(newFunctionParams) :
        /\ newFunctionParams' = Filter(newFunctionParams,
                                   LAMBDA p : p.id # newFunctionParams[i].id)
        /\ lastEdit' = "removeParam"
        /\ UNCHANGED <<graphData, newVariableName, newVariableType, customEvents,
                       newEventName, customFunctions, newFunctionName,
                       newFunctionReturnType, editingFunction, idCounter,
                       viewVars, countVars, appVars>>
        /\ Render

handleParamChange(inputs) ==
    \E index \in 1..Len(newFunctionParams), t \in inputs :
        /\ newFunctionParams' = [newFunctionParams EXCEPT ![index].type = t]
        /\ lastEdit' = "handleParamChange"
        /\ UNCHANGED <<graphData, newVariableName, newVariableType, customEvents,
                       newEventName, customFunctions, newFunctionName,
                       newFunctionReturnType, editingFunction, idCounter,
                       viewVars, countVars, appVars>>
        /\ Render

resetFunctionForm ==
    /\ editingFunction' = Null
    /\ newFunctionName' = <<>>
    /\ newFunctionParams' = <<>>
    /\ newFunctionReturnType' = "None"

\* the "Cancelar" button, shown while a function is being edited
cancelEdit ==
    /\ editingFunction # Null
    /\ resetFunctionForm
    /\ lastEdit' = "resetFunctionForm"
    /\ UNCHANGED <<graphData, newVariableName, newVariableType, customEvents,
                   newEventName, customFunctions, idCounter, viewVars, countVars, appVars>>
    /\ Render

handleCreateFunction(maxIds) ==
    LET trimmedName == trim(newFunctionName)
    IN  /\ editingFunction = Null
        /\ lastEdit' = "handleCreateFunction"
        /\ IF trimmedName = <<>> \/ NameTaken(customFunctions, trimmedName)
           THEN UNCHANGED <<customFunctions, functionFormVars, idCounter>>
           ELSE /\ Len(customFunctions) < MaxFuncs
                /\ IdsLeft(1, maxIds)
                /\ customFunctions' = Append(customFunctions,
                       [id |-> generateId("funcDef", idCounter["funcDef"]),
                        name |-> trimmedName,
                        parameters |-> newFunctionParams,
                        returnType |-> newFunctionReturnType])
                /\ idCounter' = [idCounter EXCEPT !["funcDef"] = @ + 1]
                /\ resetFunctionForm
        /\ UNCHANGED <<graphData, newVariableName, newVariableType, customEvents,
                       newEventName, viewVars, countVars, appVars>>
        /\ ParentRender

handleEditFunctionStart ==
    \E i \in 1..Len(customFunctions) :
        LET func == customFunctions[i]
        IN  /\ editingFunction' = Just(func)
            /\ newFunctionName' = func.name
            /\ newFunctionParams' = func.parameters
            /\ newFunctionReturnType' = func.returnType
            /\ lastEdit' = "handleEditFunctionStart"
            /\ UNCHANGED <<graphData, newVariableName, newVariableType,
                           customEvents, newEventName, customFunctions,
                           idCounter, viewVars, countVars, appVars>>
            /\ Render

\* pins of a call node of func, with the pin ids generateId hands out from
\* its k-th next call on
FunctionPins(func, k) ==
    LET np == Len(func.parameters)
        base == <<[id |-> PinId(k), name |-> <<>>, type |-> "exec",
                   direction |-> "in", dataType |-> "Exec"],
                  [id |-> PinId(k + 1), name |-> <<>>, type |-> "exec",
                   direction |-> "out", dataType |-> "Exec"]>>
                \o [j \in 1..np |->
                      [id |-> PinId(k + 1 + j),
                       name |-> func.parameters[j].name, type |-> "data",
                       direction |-> "in", dataType |-> func.parameters[j].type]]
    IN  IF func.returnType # "None"
        THEN Append(base, [id |-> PinId(k + 2 + np),
                           name |-> S_ReturnValue, type |-> "data",
                           direction |-> "out", dataType |-> func.returnType])
        ELSE base

FunctionPinCount(func) ==
    2 + Len(func.parameters) + (IF func.returnType # "None" THEN 1 ELSE 0)

IsCallNodeOf(n, name) == n.type = "function" /\ n.name = name

\* UpdateFunctionGraph renaming the call nodes and leaving their pins
UpdateFunctionGraphKeepingPins(prev, oldName, updatedFunction) ==
    [prev EXCEPT !.nodes = [i \in 1..Len(prev.nodes) |->
        IF IsCallNodeOf(prev.nodes[i], oldName)
        THEN [prev.nodes[i] EXCEPT !.name = updatedFunction.name]
        ELSE prev.nodes[i]]]

\* the setGraphData updater of handleUpdateFunction
UpdateFunctionGraph(prev, oldName, updatedFunction) ==
    LET affectedNodes == Filter(prev.nodes, LAMBDA n : IsCallNodeOf(n, oldName))
        pinsToRemove == PinIds(affectedNodes)
        newConnections == Filter(prev.connections,
                              LAMBDA c : c.fromPinId \notin pinsToRemove
                                         /\ c.toPinId \notin pinsToRemove)
        \* the number of affected nodes before position i
        rank(i) == Len(Filter(SubSeq(prev.nodes, 1, i - 1),
                              LAMBDA n : IsCallNodeOf(n, oldName)))
        newNodes == [i \in 1..Len(prev.nodes) |->
                       IF IsCallNodeOf(prev.nodes[i], oldName)
                       THEN [prev.nodes[i] EXCEPT
                               !.name = updatedFunction.name,
                               !.pins = FunctionPins(updatedFunction,
                                   rank(i) * FunctionPinCount(updatedFunction))]
                       ELSE prev.nodes[i]]
    IN  IF affectedNodes = <<>> THEN prev
        ELSE [prev EXCEPT !.nodes = newNodes, !.connections = newConnections]

handleUpdateFunction(maxIds) ==
    LET trimmedName == trim(newFunctionName) IN
    /\ editingFunction # Null
    /\ lastEdit' = "handleUpdateFunction"
    /\ LET editing == editingFunction[1]
           updatedFunction == [editing EXCEPT !.name = trimmedName,
                                              !.parameters = newFunctionParams,
                                              !.returnType = newFunctionReturnType]
           affected == Len(Filter(graphData.nodes,
                                  LAMBDA n : IsCallNodeOf(n, editing.name)))
           used == affected * FunctionPinCount(updatedFunction)
       IN  IF \/ trimmedName = <<>>
              \/ Some(customFunctions, LAMBDA f :
                     f.id # editing.id
                     /\ toLowerCase(f.name) = toLowerCase(trimmedName))
           THEN UNCHANGED <<graphData, customFunctions, functionFormVars,
                            idCounter, viewVars,
                            sceneNodes>>
           ELSE /\ IdsLeft(used, maxIds)
                /\ customFunctions' = Map(customFunctions, LAMBDA f :
                       IF f.id = editing.id THEN updatedFunction ELSE f)
                /\ graphData' = UpdateFunctionGraph(graphData, editing.name,
                                                    updatedFunction)
                /\ idCounter' = Advance(0, used)
                /\ IF affected = 0
                   THEN UNCHANGED viewVars /\ Render
                   ELSE GraphDataEffect(graphData')
                /\ resetFunctionForm
    /\ UNCHANGED <<newVariableName, newVariableType, customEvents, newEventName,
                   countVars, appVars>>

handleDeleteFunction ==
    \E i \in 1..Len(customFunctions) :
        LET funcToDelete == customFunctions[i]
            nodesToRemove == Filter(graphData.nodes,
                                 LAMBDA n : IsCallNodeOf(n, funcToDelete.name))
        IN  /\ customFunctions' = Filter(customFunctions,
                                         LAMBDA f : f.id # funcToDelete.id)
            /\ graphData' = RemoveNodes(graphData, nodesToRemove)
            /\ GraphDataEffect(graphData')
            /\ lastEdit' = "handleDeleteFunction"
            /\ UNCHANGED <<formVars, customEvents, idCounter, countVars, appVars>>

handleAddFunctionCallNode(maxIds) ==
    \E i \in 1..Len(customFunctions) :
        LET func == customFunctions[i]
            used == FunctionPinCount(func)
            newNode == [id |-> NodeId,
                        name |-> func.name, type |-> "function",
                        x |-> Q(300), y |-> Q(300),
                        pins |-> FunctionPins(func, 0)]
        IN  /\ IdsLeft(used + 1, maxIds)
            /\ idCounter' = Advance(1, used)
            /\ graphData' = AddNode(graphData, newNode)
            /\ GraphDataEffect(graphData')
            /\ lastEdit' = "handleAddFunctionCallNode"
            /\ UNCHANGED <<formVars, customEvents, customFunctions, countVars, appVars>>

handleAddCommonNode(maxIds) ==
    \E t \in 1..Len(nodeLibrary) :
        LET nodeTemplate == nodeLibrary[t]
            np == Len(nodeTemplate.pins)
            newNode == [id |-> NodeId,
                        name |-> nodeTemplate.name, type |-> nodeTemplate.type,
                        x |-> Q(300), y |-> Q(300),
                        pins |-> [j \in 1..np |->
                                    [id |-> PinId(j - 1),
                                     name |-> nodeTemplate.pins[j].name,
                                     type |-> nodeTemplate.pins[j].type,
                                     direction |-> nodeTemplate.pins[j].direction,
                                     dataType |-> nodeTemplate.pins[j].dataType]]]
        IN  /\ IdsLeft(np + 1, maxIds)
            /\ idCounter' = Advance(1, np)
            /\ graphData' = AddNode(graphData, newNode)
            /\ GraphDataEffect(graphData')
            /\ lastEdit' = "handleAddCommonNode"
            /\ UNCHANGED <<formVars, customEvents, customFunctions, countVars, appVars>>


(* ------------------------ BlueprintVisualizer ------------------------- *)

\* client points of pointer and wheel events, and wheel deltas
Points == {<<100, 100>>, <<105, 100>>, <<100, 94>>}
Deltas == {-1000, 500, 2000}

\* the root element with the handlers is rendered only for a non-empty graph
Rendered == Len(localGraphData.nodes) > 0

\* nodeMap.get(nodeId): the map is refilled from localGraphData.nodes after
\* every render, a later node replacing an earlier one with the same id
nodeMapGet(nodes, nodeId) ==
    LET hits == Filter(nodes, LAMBDA n : n.id = nodeId)
    IN  IF hits = <<>> THEN Null ELSE Just(hits[Len(hits)])

\* Inert with the test of isInteractive forgotten
InertNever(interactive) == FALSE

\* if (!isInteractive) return; at the head of every pointer and wheel handler
Inert(interactive) == ~interactive

handleNodeMouseDown(maxInputs) ==
    \E p \in Points, i \in 1..Len(localGraphData.nodes) :
        LET nodeId == localGraphData.nodes[i].id
            node == nodeMapGet(localGraphData.nodes, nodeId)
        IN  /\ Rendered
            /\ nDown + nWheel < maxInputs
            /\ nDown' = nDown + 1
            /\ pointer' = p
            /\ nMoves' = 0
            /\ UNCHANGED panStart
            /\ IF Inert(isInteractive) \/ node = Null
               THEN UNCHANGED <<draggingNode, interactionStartRef,
                                wasDraggedRef, peakDisp, sceneNodes>>
               ELSE /\ Render
                    /\ draggingNode' = Just([id |-> nodeId,
                                             initialX |-> node[1].x,
                                             initialY |-> node[1].y])
                    /\ interactionStartRef' = p
                    /\ wasDraggedRef' = FALSE
                    /\ peakDisp' = 0
            /\ UNCHANGED <<appVars, editorVars, lastEdit, isInteractive, containerRect,
                           localGraphData, viewTransform, isPanning,
                           selectedNode, nWheel>>

\* SelectedAfterBackgroundDown with setSelectedNode(null) forgotten
SelectedAfterBackgroundDownKept(selected) == selected

\* setSelectedNode(null)
SelectedAfterBackgroundDown(selected) == Null

handleBackgroundMouseDown(maxInputs) ==
    \E p \in Points :
        /\ Rendered
        /\ nDown + nWheel < maxInputs
        /\ nDown' = nDown + 1
        /\ pointer' = p
        /\ nMoves' = 0
        /\ IF Inert(isInteractive)
           THEN UNCHANGED <<isPanning, interactionStartRef, selectedNode,
                            panStart, sceneNodes>>
           ELSE /\ IF ~isPanning \/ selectedNode # Null
                   THEN Render ELSE UNCHANGED sceneNodes
                /\ isPanning' = TRUE
                /\ interactionStartRef' = p
                /\ selectedNode' = SelectedAfterBackgroundDown(selectedNode)
                /\ panStart' = Just([viewTransform |-> viewTransform,
                                     selectedNode |-> selectedNode,
                                     p |-> p, nWheel |-> nWheel,
                                     nDown |-> nDown + 1])
        /\ UNCHANGED <<appVars, editorVars, lastEdit, isInteractive, containerRect, localGraphData,
                       viewTransform, draggingNode, wasDraggedRef, peakDisp,
                       nWheel>>

DRAG_THRESHOLD == 5


\* Exceeds with the comparison made inclusive
ExceedsInclusive(dx, dy) ==
    Abs(dx) >= DRAG_THRESHOLD \/ Abs(dy) >= DRAG_THRESHOLD

\* Exceeds with a threshold of 10px
ExceedsTenPixels(dx, dy) == Abs(dx) > 10 \/ Abs(dy) > 10

Exceeds(dx, dy) == Abs(dx) > DRAG_THRESHOLD \/ Abs(dy) > DRAG_THRESHOLD

\* DraggedAfterMove with the flag computed anew at every pointer-move
DraggedAtMove(wasDragged, dx, dy) == Exceeds(dx, dy)

\* wasDraggedRef.current after a pointer-move of a node gesture
DraggedAfterMove(wasDragged, dx, dy) == wasDragged \/ Exceeds(dx, dy)

\* MoveNode with the test of the node id forgotten
MoveNodeAll(nodes, id, newX, newY) ==
    Map(nodes, LAMBDA n : [n EXCEPT !.x = newX, !.y = newY])

\* prevData.nodes.map(node => node.id === id ? { ...node, x, y } : node)
MoveNode(nodes, id, newX, newY) ==
    Map(nodes, LAMBDA n : IF n.id = id THEN [n EXCEPT !.x = newX, !.y = newY]
                          ELSE n)

\* DragPosition without the conversion of the screen delta to graph space
DragPositionUnscaled(initial, delta, scale) == RAdd(initial, Q(delta))

\* draggingNode.initialX + dx / viewTransform.scale
DragPosition(initial, delta, scale) == RAdd(initial, RDiv(Q(delta), scale))

\* PanBy with the screen delta converted to graph space
PanByScaled(vt, dx, dy) ==
    [vt EXCEPT !.x = RAdd(@, RDiv(Q(dx), vt.scale)),
               !.y = RAdd(@, RDiv(Q(dy), vt.scale))]

\* { ...prev, x: prev.x + dx, y: prev.y + dy }
PanBy(vt, dx, dy) ==
    [vt EXCEPT !.x = RAdd(@, Q(dx)), !.y = RAdd(@, Q(dy))]

handleMouseMove ==
    \E p \in Points :
        LET dx == p[1] - interactionStartRef[1]
            dy == p[2] - interactionStartRef[2]
        IN  /\ Rendered
            /\ pointer' = p
            /\ IF Inert(isInteractive)
               THEN UNCHANGED <<localGraphData, viewTransform, selectedNode,
                                interactionStartRef, wasDraggedRef, peakDisp,
                                sceneNodes>>
               ELSE IF draggingNode # Null
               THEN LET d == draggingNode[1]
                        newX == DragPosition(d.initialX, dx, viewTransform.scale)
                        newY == DragPosition(d.initialY, dy, viewTransform.scale)
                    IN  /\ wasDraggedRef' = DraggedAfterMove(wasDraggedRef, dx, dy)
                        /\ IF Exceeds(dx, dy)
                           THEN selectedNode' = Null
                           ELSE UNCHANGED selectedNode
                        /\ localGraphData' = [localGraphData EXCEPT
                               !.nodes = MoveNode(@, d.id, newX, newY)]
                        /\ peakDisp' = MaxInt(peakDisp, MaxInt(Abs(dx), Abs(dy)))
                        /\ Render
                        /\ UNCHANGED <<viewTransform, interactionStartRef>>
               ELSE IF isPanning
               THEN /\ viewTransform' = PanBy(viewTransform, dx, dy)
                    /\ interactionStartRef' = p
                    /\ Render
                    /\ UNCHANGED <<localGraphData, selectedNode, wasDraggedRef,
                                   peakDisp>>
               ELSE UNCHANGED <<localGraphData, viewTransform, selectedNode,
                                interactionStartRef, wasDraggedRef, peakDisp,
                                sceneNodes>>
            /\ nMoves' = IF nMoves < 2 THEN nMoves + 1 ELSE nMoves
            /\ UNCHANGED <<appVars, editorVars, lastEdit, isInteractive, containerRect, isPanning,
                           draggingNode, nWheel, nDown, panStart>>

\* PanningAfterUp with setIsPanning(false) forgotten
PanningAfterUpKept(panning) == panning

\* setIsPanning(false)
PanningAfterUp(panning) == FALSE

\* onMouseUp and onMouseLeave of the root element
handleMouseUp ==
    /\ Rendered
    /\ IF Inert(isInteractive)
       THEN UNCHANGED <<selectedNode, isPanning, draggingNode, sceneNodes>>
       ELSE /\ IF isPanning \/ draggingNode # Null
               THEN Render ELSE UNCHANGED sceneNodes
            /\ IF draggingNode # Null /\ ~wasDraggedRef
               THEN selectedNode' = nodeMapGet(localGraphData.nodes,
                                               draggingNode[1].id)
               ELSE UNCHANGED selectedNode
            /\ isPanning' = PanningAfterUp(isPanning)
            /\ draggingNode' = Null
    /\ UNCHANGED <<appVars, editorVars, lastEdit, isInteractive, containerRect, localGraphData,
                   viewTransform, interactionStartRef, wasDraggedRef,
                   countVars>>

MIN_SCALE == <<1, 10>>
MAX_SCALE == <<2, 1>>

\* ClampScale with the upper limit forgotten
ClampScaleLowerOnly(newScale) == RMax(MIN_SCALE, newScale)

ClampScale(newScale) == RMax(MIN_SCALE, RMin(MAX_SCALE, newScale))

\* viewTransform.scale * (1 - e.deltaY * 0.01 * zoomIntensity), zoomIntensity 0.1
WheelScale(scale, deltaY) == RMul(scale, RSub(Q(1), <<deltaY, 1000>>))

\* ZoomAt with the offset computed for the scale before clamping
ZoomAtUnclampedOffset(vt, rect, p, deltaY) ==
    LET newScale == WheelScale(vt.scale, deltaY)
        mouseX == Q(p[1] - rect.left)
        mouseY == Q(p[2] - rect.top)
        pointX == RDiv(RSub(mouseX, vt.x), vt.scale)
        pointY == RDiv(RSub(mouseY, vt.y), vt.scale)
    IN  [x |-> RSub(mouseX, RMul(pointX, newScale)),
         y |-> RSub(mouseY, RMul(pointY, newScale)),
         scale |-> ClampScale(newScale)]

\* the viewport handleWheel sets for a wheel event at client point p
ZoomAt(vt, rect, p, deltaY) ==
    LET clampedScale == ClampScale(WheelScale(vt.scale, deltaY))
        mouseX == Q(p[1] - rect.left)
        mouseY == Q(p[2] - rect.top)
        pointX == RDiv(RSub(mouseX, vt.x), vt.scale)
        pointY == RDiv(RSub(mouseY, vt.y), vt.scale)
    IN  [x |-> RSub(mouseX, RMul(pointX, clampedScale)),
         y |-> RSub(mouseY, RMul(pointY, clampedScale)),
         scale |-> clampedScale]

\* handleWheel that also ends the gesture in progress and clears the selection
handleWheelEndingGesture(maxInputs) ==
    \E p \in Points, deltaY \in Deltas :
        /\ Rendered
        /\ nDown + nWheel < maxInputs
        /\ nWheel' = nWheel + 1
        /\ pointer' = p
        /\ IF Inert(isInteractive)
           THEN UNCHANGED <<viewTransform, sceneNodes, isPanning, draggingNode,
                            selectedNode>>
           ELSE /\ viewTransform' = ZoomAt(viewTransform, containerRect, p, deltaY)
                /\ isPanning' = FALSE
                /\ draggingNode' = Null
                /\ selectedNode' = Null
                /\ Render
        /\ UNCHANGED <<appVars, editorVars, lastEdit, isInteractive, containerRect, localGraphData,
                       interactionStartRef, wasDraggedRef, peakDisp, nDown,
                       panStart, nMoves>>
handleWheel(maxInputs) ==
    \E p \in Points, deltaY \in Deltas :
        /\ Rendered
        /\ nDown + nWheel < maxInputs
        /\ nWheel' = nWheel + 1
        /\ pointer' = p
        /\ IF Inert(isInteractive)
           THEN UNCHANGED <<viewTransform, sceneNodes>>
           ELSE /\ viewTransform' = ZoomAt(viewTransform, containerRect, p, deltaY)
                /\ Render
        /\ UNCHANGED <<appVars, editorVars, lastEdit, isInteractive, containerRect, localGraphData,
                       isPanning, draggingNode, selectedNode,
                       interactionStartRef, wasDraggedRef, peakDisp, nDown,
                       panStart, nMoves>>

\* the close button of the node detail panel
closeDetailPanel ==
    /\ Rendered
    /\ isInteractive
    /\ selectedNode # Null
    /\ selectedNode' = Null
    /\ Render
    /\ UNCHANGED <<appVars, editorVars, lastEdit, isInteractive, containerRect, localGraphData,
                   viewTransform, isPanning, draggingNode, interactionStartRef,
                   wasDraggedRef, countVars>>


(* ------------------------------- render ------------------------------- *)

\* pinToNodeMap.get(pinId) for maps filled from nodes: the last node that
\* has a pin of that id, or Null
pinToNodeMapGet(nodes, pinId) ==
    LET hits == Filter(nodes, LAMBDA n : Some(n.pins, LAMBDA p : p.id = pinId))
    IN  IF hits = <<>> THEN Null ELSE Just(hits[Len(hits)])

\* pinMap.get(pinId): the pin of that id in that node
pinMapGet(nodes, pinId) ==
    LET node == pinToNodeMapGet(nodes, pinId)
    IN  IF node = Null THEN Null
        ELSE LET hits == Filter(node[1].pins, LAMBDA p : p.id = pinId)
             IN  Just(hits[Len(hits)])

\* Array.prototype.findIndex, counted from 0
FindIndex(s, Test(_)) ==
    (CHOOSE i \in 1..Len(s) : Test(s[i]) /\ \A j \in 1..(i - 1) : ~Test(s[j])) - 1

\* getPinPosition with the pin's index taken in the whole pin list
getPinPositionInPinList(node, pinId) ==
    LET found == Filter(node.pins, LAMBDA p : p.id = pinId)
    IN  IF found = <<>> THEN [x |-> node.x, y |-> node.y]
        ELSE LET pin == found[1]
                 pinIndex == FindIndex(node.pins, LAMBDA p : p.id = pinId)
             IN  [x |-> IF pin.direction = "in" THEN node.x
                        ELSE RAdd(node.x, Q(NODE_WIDTH)),
                  y |-> RAdd(RAdd(node.y,
                                  Q(NODE_HEADER_HEIGHT + PIN_OFFSET_Y
                                    + pinIndex * PIN_HEIGHT)),
                             <<PIN_HEIGHT, 2>>)]
getPinPosition(node, pinId) ==
    LET found == Filter(node.pins, LAMBDA p : p.id = pinId)
    IN  IF found = <<>> THEN [x |-> node.x, y |-> node.y]
        ELSE LET pin == found[1]
                 pinsInSameDirection ==
                     Filter(node.pins, LAMBDA p : p.direction = pin.direction)
                 pinIndex == FindIndex(pinsInSameDirection,
                                       LAMBDA p : p.id = pinId)
             IN  [x |-> IF pin.direction = "in" THEN node.x
                        ELSE RAdd(node.x, Q(NODE_WIDTH)),
                  y |-> RAdd(RAdd(node.y,
                                  Q(NODE_HEADER_HEIGHT + PIN_OFFSET_Y
                                    + pinIndex * PIN_HEIGHT)),
                             <<PIN_HEIGHT, 2>>)]

\* ConnectionPath that tests the from-pin only and draws to the start point
\* when the to-pin is in no node
ConnectionPathFromOnly(mapNodes, conn) ==
    LET fromNode == pinToNodeMapGet(mapNodes, conn.fromPinId)
        toNode == pinToNodeMapGet(mapNodes, conn.toPinId)
    IN  IF fromNode = Null THEN Null
        ELSE LET start == getPinPosition(fromNode[1], conn.fromPinId)
             IN  Just([start |-> start,
                       end |-> IF toNode = Null THEN start
                               ELSE getPinPosition(toNode[1], conn.toPinId)])

\* the <path> drawn for conn, or Null (the map callback returns null), with
\* the maps filled from mapNodes
ConnectionPath(mapNodes, conn) ==
    LET fromNode == pinToNodeMapGet(mapNodes, conn.fromPinId)
        toNode == pinToNodeMapGet(mapNodes, conn.toPinId)
        fromPin == pinMapGet(mapNodes, conn.fromPinId)
    IN  IF fromNode = Null \/ toNode = Null \/ fromPin = Null THEN Null
        ELSE Just([start |-> getPinPosition(fromNode[1], conn.fromPinId),
                   end |-> getPinPosition(toNode[1], conn.toPinId)])

\* SceneOf without the early return for a graph that has no node
SceneOfNoEarlyReturn(local, mapNodes) ==
    [kind |-> "graph",
     paths |-> Map(local.connections,
                   LAMBDA conn : ConnectionPath(mapNodes, conn)),
     nodes |-> Map(local.nodes,
                   LAMBDA n : [id |-> n.id, x |-> n.x, y |-> n.y])]

\* what the component returns for the local graph: the "nothing to display"
\* element, or one entry per connection (its path or Null) and one <g> per
\* node, translated to the node's position
SceneOf(local, mapNodes) ==
    IF Len(local.nodes) = 0
    THEN [kind |-> "empty", paths |-> <<>>, nodes |-> <<>>]
    ELSE [kind |-> "graph",
          paths |-> Map(local.connections,
                        LAMBDA conn : ConnectionPath(mapNodes, conn)),
          nodes |-> Map(local.nodes,
                        LAMBDA n : [id |-> n.id, x |-> n.x, y |-> n.y])]

\* the scene on screen
Scene == SceneOf(localGraphData, sceneNodes)


(* -------------------- App: the generation requests -------------------- *)

Modes == {"cpp-to-bp", "bp-to-cpp"}

\* texts typed into the code editor
CodeInputs == {<<>>, <<" ">>, <<"x">>}

\* what generateBlueprintGuide / generateCppCode resolve to, and the
\* messages of the errors they reject with
GuideResponses ==
    {[guide |-> "", blueprintGraphs |-> <<>>],
     [guide |-> "guide", blueprintGraphs |-> <<"EventGraph">>],
     [guide |-> "guide", blueprintGraphs |-> <<"EventGraph", "Fire">>]}
CppResponses == {[header |-> "h", source |-> "cpp"]}
FailureMessages == {"fetch failed"}

\* the template strings handed to setError, as their parts
EmptyCodeError == <<"O campo de codigo C++ nao pode estar vazio.">>
GuideFailure(message) == <<"Falha ao gerar o guia: ", message>>
CppFailure(message) == <<"Falha ao gerar o codigo C++: ", message>>

\* the disabled attribute of the generate / convert button
DisabledNever(loading) == FALSE
Disabled(loading) == loading

Requests(flow) == {r \in pending : r.flow = flow}

Issue(flow) ==
    /\ nIssued' = nIssued + 1
    /\ pending' = pending \cup {[id |-> nIssued + 1, flow |-> flow]}
    /\ superseded' = superseded \cup {r.id : r \in Requests(flow)}
    /\ UNCHANGED <<orphaned, lastResolved>>

Settle(r) ==
    /\ pending' = pending \ {r}
    /\ orphaned' = orphaned \ {r.id}
    /\ lastResolved' = Just(r.id)
    /\ UNCHANGED <<nIssued, superseded>>

restVars == <<editorVars, lastEdit, viewVars, sceneNodes, countVars>>

\* CodeEditor: onChange of the textarea, disabled while loading
setCode(inputs) ==
    /\ mode = "cpp-to-bp"
    /\ ~isLoading
    /\ \E code \in inputs : cppCode' = code
    /\ UNCHANGED <<mode, displayVars, pending, orphaned, nIssued, superseded,
                   lastResolved, outputVars, restVars>>

\* useEffect(() => setSelectedGraphIndex(0), [blueprintGraphs]) skipped
GraphsEffectOmitted == UNCHANGED selectedGraphIndex

\* useEffect(() => setSelectedGraphIndex(0), [blueprintGraphs]) of
\* OutputDisplay, run after the render that follows a new list
GraphsEffect == selectedGraphIndex' = 0

\* the state of OutputDisplay at its mount
OutputMounted(tab, view) ==
    /\ activeTab = tab
    /\ selectedGraphIndex = 0
    /\ viewMode = view

\* the two mode buttons; leaving bp-to-cpp unmounts BlueprintCreator and
\* leaving cpp-to-bp unmounts OutputDisplay: the state of either is the
\* initial one again at its next mount
setMode ==
    \E m \in Modes :
        /\ mode' = m
        /\ IF mode = "bp-to-cpp" /\ m = "cpp-to-bp"
              THEN /\ creatorIsLoading' = FALSE
                   /\ creatorError' = Null
                   /\ creatorCppCode' = Null
                   /\ orphaned' = orphaned \cup
                                    {r.id : r \in Requests("convert")}
              ELSE UNCHANGED <<creatorIsLoading, creatorError, creatorCppCode,
                               orphaned>>
        /\ IF mode = "cpp-to-bp" /\ m = "bp-to-cpp"
              THEN /\ activeTab' = "guide"
                   /\ selectedGraphIndex' = 0
                   /\ viewMode' = "focus"
              ELSE UNCHANGED outputVars
        /\ UNCHANGED <<cppCode, blueprintGuide, blueprintGraphs, isLoading,
                       error, pending, nIssued, superseded, lastResolved,
                       restVars>>

\* App.handleGenerate up to its await
handleGenerate ==
    /\ mode = "cpp-to-bp"
    /\ ~Disabled(isLoading)
    /\ IF trim(cppCode) = <<>>
          THEN /\ error' = Just(EmptyCodeError)
               /\ UNCHANGED <<blueprintGuide, blueprintGraphs, isLoading,
                              pending, orphaned, nIssued, superseded,
                              lastResolved, selectedGraphIndex>>
          ELSE /\ nIssued < MaxRequests
               /\ isLoading' = TRUE
               /\ error' = Null
               /\ blueprintGuide' = ""
               /\ blueprintGraphs' = <<>>
               /\ GraphsEffect
               /\ Issue("generate")
    /\ UNCHANGED <<mode, cppCode, creatorIsLoading, creatorError,
                   creatorCppCode, activeTab, viewMode, restVars>>

\* resolveGenerate without the finally block
resolveGenerateNoFinally ==
    \E r \in Requests("generate") :
        /\ \/ \E response \in GuideResponses :
                /\ blueprintGuide' = response.guide
                /\ blueprintGraphs' = response.blueprintGraphs
                /\ GraphsEffect
                /\ UNCHANGED error
           \/ \E message \in FailureMessages :
                /\ error' = Just(GuideFailure(message))
                /\ UNCHANGED <<blueprintGuide, blueprintGraphs,
                               selectedGraphIndex>>
        /\ UNCHANGED isLoading
        /\ Settle(r)
        /\ UNCHANGED <<mode, cppCode, creatorIsLoading, creatorError,
                       creatorCppCode, activeTab, viewMode, restVars>>

\* App.handleGenerate after its await: the try, catch and finally blocks
resolveGenerate ==
    \E r \in Requests("generate") :
        /\ \/ \E response \in GuideResponses :
                /\ blueprintGuide' = response.guide
                /\ blueprintGraphs' = response.blueprintGraphs
                /\ GraphsEffect
                /\ UNCHANGED error
           \/ \E message \in FailureMessages :
                /\ error' = Just(GuideFailure(message))
                /\ UNCHANGED <<blueprintGuide, blueprintGraphs,
                               selectedGraphIndex>>
        /\ isLoading' = FALSE
        /\ Settle(r)
        /\ UNCHANGED <<mode, cppCode, creatorIsLoading, creatorError,
                       creatorCppCode, activeTab, viewMode, restVars>>

\* BlueprintCreator.handleConvertToCpp up to its await
handleConvertToCpp ==
    /\ mode = "bp-to-cpp"
    /\ ~Disabled(creatorIsLoading)
    /\ nIssued < MaxRequests
    /\ creatorIsLoading' = TRUE
    /\ creatorError' = Null
    /\ creatorCppCode' = Null
    /\ Issue("convert")
    /\ UNCHANGED <<mode, cppCode, blueprintGuide, blueprintGraphs, isLoading,
                   error, outputVars, restVars>>

\* BlueprintCreator.handleConvertToCpp after its await; the state setters of
\* an instance that has unmounted change nothing
resolveConvert ==
    \E r \in Requests("convert") :
        /\ IF r.id \in orphaned
              THEN UNCHANGED <<creatorIsLoading, creatorError, creatorCppCode>>
              ELSE /\ \/ \E response \in CppResponses :
                           /\ creatorCppCode' = Just(response)
                           /\ UNCHANGED creatorError
                      \/ \E message \in FailureMessages :
                           /\ creatorError' = Just(CppFailure(message))
                           /\ UNCHANGED creatorCppCode
                   /\ creatorIsLoading' = FALSE
        /\ Settle(r)
        /\ UNCHANGED <<mode, cppCode, blueprintGuide, blueprintGraphs,
                       isLoading, error, outputVars, restVars>>

\* OutputDisplay.renderContent: the elements it returns
hasContent(guide, graphs) == guide # "" /\ Len(graphs) > 0

OutputContentNoEarlyReturn(loading, err, guide, graphs) ==
    (IF loading THEN {"LoadingSkeleton"} ELSE {})
    \cup (IF err # Null THEN {"ErrorBanner"} ELSE {})
    \cup (IF ~hasContent(guide, graphs) THEN {"Placeholder"} ELSE {"Populated"})
OutputContent(loading, err, guide, graphs) ==
    IF loading THEN {"LoadingSkeleton"}
    ELSE IF err # Null THEN {"ErrorBanner"}
    ELSE IF ~hasContent(guide, graphs) THEN {"Placeholder"}
    ELSE {"Populated"}

\* CppCodeDisplay.renderContent: the elements it returns
CppContent(loading, err, code) ==
    IF loading THEN {"LoadingSkeleton"}
    ELSE IF err # Null THEN {"ErrorBanner"}
    ELSE IF code = Null THEN {"Placeholder"}
    ELSE {"Populated"}

\* what the output panel of the current mode shows
Panel ==
    IF mode = "cpp-to-bp"
       THEN OutputContent(isLoading, error, blueprintGuide, blueprintGraphs)
       ELSE CppContent(creatorIsLoading, creatorError, creatorCppCode)

Tabs == {"guide", "visualizer"}
ViewModes == {"focus", "overview"}

\* the visualizer tab of the output panel is on screen
VisualizerShown ==
    /\ mode = "cpp-to-bp"
    /\ Panel = {"Populated"}
    /\ activeTab = "visualizer"

\* OutputDisplay: the two tab buttons, disabled without content
setActiveTab ==
    /\ mode = "cpp-to-bp"
    /\ hasContent(blueprintGuide, blueprintGraphs)
    /\ \E tab \in Tabs : activeTab' = tab
    /\ UNCHANGED <<mode, cppCode, displayVars, pending, orphaned, nIssued,
                   superseded, lastResolved, selectedGraphIndex, viewMode,
                   restVars>>

\* OutputDisplay: the two view mode buttons, rendered on the visualizer tab
\* with content
setViewMode ==
    /\ mode = "cpp-to-bp"
    /\ activeTab = "visualizer"
    /\ hasContent(blueprintGuide, blueprintGraphs)
    /\ \E view \in ViewModes : viewMode' = view
    /\ UNCHANGED <<mode, cppCode, displayVars, pending, orphaned, nIssued,
                   superseded, lastResolved, activeTab, selectedGraphIndex,
                   restVars>>

\* OutputDisplay: onChange of the graph selector, rendered in focus mode
\* for a list of more than one graph; its options are the indexes of the list
setSelectedGraphIndex ==
    /\ VisualizerShown
    /\ viewMode = "focus"
    /\ Len(blueprintGraphs) > 1
    /\ \E index \in 0..(Len(blueprintGraphs) - 1) : selectedGraphIndex' = index
    /\ UNCHANGED <<mode, cppCode, displayVars, pending, orphaned, nIssued,
                   superseded, lastResolved, activeTab, viewMode, restVars>>

(* --------------------------- specifications --------------------------- *)

ContainerRects == {[left |-> 20, top |-> 10, width |-> 800, height |-> 600]}

\* state of a freshly mounted visualizer showing g, after its first effect
Mounted(g, interactive, rect) ==
    /\ isInteractive = interactive
    /\ containerRect = rect
    /\ localGraphData = g
    /\ sceneNodes = g.nodes
    /\ viewTransform = EffectViewTransform(g, interactive, rect, g,
                           [x |-> Q(50), y |-> Q(50), scale |-> Q(1)])
    /\ isPanning = FALSE
    /\ draggingNode = Null
    /\ selectedNode = Null
    /\ interactionStartRef = <<0, 0>>
    /\ wasDraggedRef = FALSE
    /\ pointer = <<0, 0>>
    /\ peakDisp = 0
    /\ panStart = Null
    /\ nMoves = 0
    /\ nWheel = 0
    /\ nDown = 0

EditorMounted(g) ==
    /\ graphData = g
    /\ newVariableName = <<>>
    /\ newVariableType = "Boolean"
    /\ customEvents = <<>>
    /\ newEventName = <<>>
    /\ customFunctions = <<>>
    /\ newFunctionName = <<>>
    /\ newFunctionParams = <<>>
    /\ newFunctionReturnType = "None"
    /\ editingFunction = Null
    /\ idCounter = [p \in IdPrefixes |-> 0]
    /\ lastEdit = "mount"

\* App in cpp-to-bp mode with no request in flight, holding a guide and
\* the names of its graphs
AppIdle(guide, graphs) ==
    /\ mode = "cpp-to-bp"
    /\ cppCode = <<>>
    /\ blueprintGuide = guide
    /\ blueprintGraphs = graphs
    /\ isLoading = FALSE
    /\ error = Null
    /\ creatorIsLoading = FALSE
    /\ creatorError = Null
    /\ creatorCppCode = Null
    /\ pending = {}
    /\ orphaned = {}
    /\ nIssued = 0
    /\ superseded = {}
    /\ lastResolved = Null
    /\ OutputMounted(IF graphs = <<>> THEN "guide" ELSE "visualizer",
                     IF Len(graphs) > 1 THEN "overview" ELSE "focus")

\* App as first rendered
AppMounted == AppIdle("", <<>>)


\* BlueprintCreator with its interactive visualizer
Init ==
    /\ AppMounted
    /\ EditorMounted(initialGraphData)
    /\ \E rect \in ContainerRects : Mounted(initialGraphData, TRUE, rect)

\* the editor's variable operations
NextVars ==
    \/ SetNewVariableName(VarNameInputs)
    \/ SetNewVariableType(TypeInputs)
    \/ handleAddVariable
    \/ handleDeleteVariable
    \/ handleAddVariableNode(MaxIds)
SpecVars == Init /\ [][NextVars]_vars

\* every editor operation that changes nodes or connections
NextEdit ==
    \/ handleDeleteVariable
    \/ handleAddVariableNode(MaxIds)
    \/ SetNewEventName({S_EventBeginPlay})
    \/ handleAddEvent(MaxIds)
    \/ handleDeleteEvent
    \/ handleAddEventNode(MaxIds)
    \/ SetNewFunctionName({S_PrintString})
    \/ SetNewFunctionReturnType(ReturnTypeInputs)
    \/ cancelEdit
    \/ handleCreateFunction(MaxIds)
    \/ handleEditFunctionStart
    \/ handleUpdateFunction(MaxIds)
    \/ handleDeleteFunction
    \/ handleAddFunctionCallNode(MaxIds)
    \/ handleAddCommonNode(MaxIds)
SpecEdit == Init /\ [][NextEdit]_vars


\* a generated graph as the output panel shows it in focus mode: an event
\* node wired to a function node
focusGraph ==
  [nodes |-> <<
    [id |-> <<"node", 1>>, name |-> S_EventBeginPlay, type |-> "event",
     x |-> Q(0), y |-> Q(0),
     pins |-> <<[id |-> <<"pin", 1>>, name |-> <<>>, type |-> "exec",
                 direction |-> "out", dataType |-> "Exec"]>>],
    [id |-> <<"node", 2>>, name |-> S_PrintString, type |-> "function",
     x |-> Q(300), y |-> Q(0),
     pins |-> <<[id |-> <<"pin", 2>>, name |-> <<>>, type |-> "exec",
                 direction |-> "in", dataType |-> "Exec"],
                [id |-> <<"pin", 3>>, name |-> <<>>, type |-> "exec",
                 direction |-> "out", dataType |-> "Exec"],
                [id |-> <<"pin", 4>>, name |-> <<"I", "n", " ", "S", "t", "r", "i", "n", "g">>,
                 type |-> "data", direction |-> "in", dataType |-> "String"]>>]>>,
   connections |-> <<[fromPinId |-> <<"pin", 1>>, toPinId |-> <<"pin", 2>>]>>,
   variables |-> <<>>]

\* the interactive visualizer of the output panel showing focusGraph
InitView ==
    /\ AppIdle("guide", <<"EventGraph">>)
    /\ EditorMounted(focusGraph)
    /\ \E rect \in ContainerRects : Mounted(focusGraph, TRUE, rect)

\* the pointer and wheel events of the interactive visualizer
NextView ==
    \/ handleNodeMouseDown(MaxInputs)
    \/ handleBackgroundMouseDown(MaxInputs)
    \/ handleMouseMove
    \/ handleMouseUp
    \/ handleWheel(MaxInputs)
    \/ closeDetailPanel

SpecView == InitView /\ [][NextView]_vars

\* zooming and panning only
NextZoom ==
    \/ handleBackgroundMouseDown(MaxZoomInputs)
    \/ handleMouseMove
    \/ handleMouseUp
    \/ handleWheel(MaxZoomInputs)

SpecZoom == InitView /\ [][NextZoom]_vars


\* generated graphs of different extent, as the overview shows them, and
\* the container rectangles the layout may give an overview card
OverviewGraphs ==
    {[focusGraph EXCEPT !.nodes[1].x = Q(ax),
                        !.nodes[2].x = Q(bx), !.nodes[2].y = Q(by)] :
        ax \in {0, 120}, bx \in {300, 2780, 7780}, by \in {0, 3000}}

OverviewRects ==
    {[left |-> 20, top |-> 10, width |-> w, height |-> h] :
        w \in {90, 400, 800, 1200}, h \in {368, 600}}

\* a non-interactive visualizer of the overview, mounted on a generated graph
InitFit ==
    \E g \in OverviewGraphs, rect \in OverviewRects :
        /\ AppIdle("guide", <<"EventGraph", "Fire">>)
        /\ EditorMounted(g)
        /\ Mounted(g, FALSE, rect)

NextFit ==
    \/ handleNodeMouseDown(MaxInputs)
    \/ handleBackgroundMouseDown(MaxInputs)
    \/ handleMouseMove
    \/ handleMouseUp
    \/ handleWheel(MaxInputs)

SpecFit == InitFit /\ [][NextFit]_vars


\* generated graphs the render has to cope with: focusGraph with one more
\* connection to a pin that no node has and one from such a pin, and a
\* graph without nodes
malformedGraph ==
    [focusGraph EXCEPT !.connections =
        <<[fromPinId |-> <<"pin", 3>>, toPinId |-> <<"pin", 99>>]>>
        \o @
        \o <<[fromPinId |-> <<"pin", 98>>, toPinId |-> <<"pin", 4>>]>>]

emptyGraph ==
    [nodes |-> <<>>,
     connections |-> <<[fromPinId |-> <<"pin", 1>>, toPinId |-> <<"pin", 2>>]>>,
     variables |-> <<>>]

InitRender ==
    \E g \in {malformedGraph, emptyGraph} :
        /\ AppIdle("guide", <<"EventGraph">>)
        /\ EditorMounted(g)
        /\ \E rect \in ContainerRects : Mounted(g, TRUE, rect)

NextRender ==
    \/ handleNodeMouseDown(MaxRenderInputs)
    \/ handleBackgroundMouseDown(MaxRenderInputs)
    \/ handleMouseMove
    \/ handleMouseUp
    \/ handleWheel(MaxRenderInputs)
    \/ closeDetailPanel

SpecRender == InitRender /\ [][NextRender]_vars


\* the two generation flows of App
InitApp == Init

NextApp ==
    \/ setCode(CodeInputs)
    \/ setMode
    \/ handleGenerate
    \/ resolveGenerate
    \/ handleConvertToCpp
    \/ resolveConvert
    \/ setActiveTab
    \/ setViewMode
    \/ setSelectedGraphIndex

SpecApp == InitApp /\ [][NextApp]_vars

\* BlueprintCreator: node gestures and wheel events on its visualizer,
\* interleaved with an editor operation that hands it a new graph value
NextReplace ==
    \/ handleDeleteVariable
    \/ handleNodeMouseDown(MaxRenderInputs)
    \/ handleMouseMove
    \/ handleMouseUp
    \/ handleWheel(MaxRenderInputs)
    \/ closeDetailPanel

SpecReplace == Init /\ [][NextReplace]_vars
\* the function tab of the editor: the function form, the function list and
\* the call nodes of the functions
NextFunc ==
    \/ SetNewFunctionName({<<"F">>, <<"f", " ">>})
    \/ SetNewFunctionReturnType({"Integer"})
    \/ addParam(MaxFuncIds)
    \/ handleCreateFunction(MaxFuncIds)
    \/ handleEditFunctionStart
    \/ handleUpdateFunction(MaxFuncIds)
    \/ handleDeleteFunction
    \/ handleAddFunctionCallNode(MaxFuncIds)

SpecFunc == Init /\ [][NextFunc]_vars
\* the function list of the editor under names that are empty once trimmed,
\* that collide ignoring case, and that differ
NextNames ==
    \/ SetNewFunctionName({<<" ">>, <<"F">>, <<"f", " ">>, <<"G">>})
    \/ cancelEdit
    \/ handleCreateFunction(MaxFuncIds)
    \/ handleEditFunctionStart
    \/ handleUpdateFunction(MaxFuncIds)
    \/ handleDeleteFunction
    \/ handleAddFunctionCallNode(MaxFuncIds)

SpecNames == Init /\ [][NextNames]_vars
\* the promise of every backend call settles: each awaited request is
\* resolved or rejected in the end
SpecAppLive ==
    InitApp /\ [][NextApp]_vars
    /\ WF_vars(resolveGenerate) /\ WF_vars(resolveConvert)
(* ------------------------------- claims ------------------------------- *)

IsVariableNode(n) == n.type = "variable_get" \/ n.type = "variable_set"

\* C1: in every graph the editor reaches from the built-in template, both
\* pins of every connection belong to a node of the graph: no node is gone
\* or has had its pins replaced while a connection to its old pins remains.
C1_NoDanglingConnection ==
    LET pins == PinIds(graphData.nodes)
    IN  \A c \in Range(graphData.connections) :
            c.fromPinId \in pins /\ c.toPinId \in pins

\* updating a function has replaced the pins of a template node that had
\* connections, and those connections went with the old pins
C1_Witness ==
    /\ lastEdit = "handleUpdateFunction"
    /\ Len(graphData.connections) < Len(initialGraphData.connections)
    /\ \E n \in Range(initialGraphData.nodes) :
          /\ \E m \in Range(graphData.nodes) : m.id = n.id
          /\ PinIds(<<n>>) \cap PinIds(graphData.nodes) = {}

\* C2: deleting the variable called name removes that variable, every
\* "Get name" / "Set name" variable node and every connection at a pin of
\* those nodes, and keeps every other variable, node and connection as it
\* was, in order.
C2_DeleteVariableEffect ==
    [][\A i \in 1..Len(graphData.variables) :
         LET name == graphData.variables[i].name
             Derived(n) == IsVariableNode(n)
                           /\ n.name \in {S_Get \o name, S_Set \o name}
             gone == PinIds(SelectSeq(graphData.nodes, Derived))
         IN  (/\ lastEdit' = "handleDeleteVariable"
              /\ graphData' # graphData
              /\ ~Some(graphData'.variables, LAMBDA v : v.name = name))
             =>
             /\ graphData'.variables =
                  SelectSeq(graphData.variables, LAMBDA v : v.name # name)
             /\ graphData'.nodes =
                  SelectSeq(graphData.nodes, LAMBDA n : ~Derived(n))
             /\ graphData'.connections =
                  SelectSeq(graphData.connections,
                            LAMBDA c : c.fromPinId \notin gone
                                       /\ c.toPinId \notin gone)
      ]_vars

\* a variable was just deleted, one of the variable nodes created so far
\* went with it, and another variable's node is still in the graph
C2_Witness ==
    /\ lastEdit = "handleDeleteVariable"
    /\ Len(graphData.nodes) <
          Len(initialGraphData.nodes) + idCounter["node"]
    /\ \E n \in Range(graphData.nodes) : IsVariableNode(n)

\* C3: variable names are pairwise distinct ignoring case, and an
\* addVariable whose trimmed name equals an existing name ignoring case
\* leaves the variable list unchanged.
C3_VariableNamesDistinct ==
    /\ [](\A i, j \in 1..Len(graphData.variables) :
            i # j => toLowerCase(graphData.variables[i].name)
                     # toLowerCase(graphData.variables[j].name))
    /\ [][(/\ lastEdit' = "handleAddVariable"
           /\ \E v \in Range(graphData.variables) :
                 toLowerCase(v.name) = toLowerCase(trim(newVariableName)))
          => graphData'.variables = graphData.variables]_vars

\* an addVariable was just rejected for a name that differs from an
\* existing one in case and surrounding blanks only
C3_Witness ==
    /\ lastEdit = "handleAddVariable"
    /\ \E v \in Range(graphData.variables) :
          /\ toLowerCase(v.name) = toLowerCase(trim(newVariableName))
          /\ v.name # newVariableName
          /\ v.name # trim(newVariableName)

\* C4: addVariable with an empty or blank name changes nothing of the
\* graph: nodes, connections and variables stay as they were.
C4_EmptyNameRejected ==
    [][(lastEdit' = "handleAddVariable" /\ trim(newVariableName) = <<>>)
       => graphData' = graphData /\ localGraphData' = localGraphData]_vars

\* addVariable has just run on a name made of blanks
C4_Witness ==
    /\ lastEdit = "handleAddVariable"
    /\ newVariableName # <<>>
    /\ trim(newVariableName) = <<>>


\* the pointer-up (or pointer-leave) that ends a gesture begun on a node
EndsNodeGesture == draggingNode # Null /\ draggingNode' = Null

NodeOf(nodes, id) == CHOOSE n \in Range(nodes) : n.id = id

\* the gesture ends with the dragged node selected
EndsSelected ==
    /\ selectedNode' # Null
    /\ selectedNode'[1].id = draggingNode[1].id
    /\ isPanning' = FALSE

\* the gesture ends in Idle with nothing selected and the node where the
\* pointer-moves have put it
EndsIdle ==
    /\ selectedNode' = Null
    /\ isPanning' = FALSE
    /\ localGraphData' = localGraphData

\* a pointer-move of a node gesture puts the node at its pre-drag position
\* plus the displacement from the anchor divided by the scale
MovesNode ==
    (draggingNode # Null /\ localGraphData' # localGraphData)
    => LET d == draggingNode[1]
           n == NodeOf(localGraphData'.nodes, d.id)
       IN  /\ n.x = RAdd(d.initialX,
                      RDiv(Q(pointer'[1] - interactionStartRef[1]),
                           viewTransform.scale))
           /\ n.y = RAdd(d.initialY,
                      RDiv(Q(pointer'[2] - interactionStartRef[2]),
                           viewTransform.scale))

\* C5 as stated: a pointer-down/up sequence on a node whose displacement
\* from the anchor stays below 5px ends with that node selected; one whose
\* displacement reaches 5px or more on some axis ends in Idle with the
\* node's position updated and no node selected.
C5_ClickBelowFivePixels ==
    [][/\ EndsNodeGesture => IF peakDisp < 5 THEN EndsSelected ELSE EndsIdle
       /\ MovesNode]_vars

\* C5 as amended: a pointer-down/up sequence on a node whose displacement
\* from the anchor never exceeds 5px on either axis ends with that node
\* selected; one whose displacement exceeds 5px on some axis at some
\* pointer-move ends in Idle with the node's position updated and no node
\* selected.
C5_ClickWithinFivePixels ==
    [][/\ EndsNodeGesture => IF peakDisp <= 5 THEN EndsSelected ELSE EndsIdle
       /\ MovesNode]_vars

\* a gesture on a node that moved the pointer exactly 5px has ended with
\* that node selected and moved
C5_Witness ==
    /\ nDown > 0
    /\ draggingNode = Null
    /\ peakDisp = 5
    /\ selectedNode # Null
    /\ NodeOf(localGraphData.nodes, selectedNode[1].id)
         # NodeOf(focusGraph.nodes, selectedNode[1].id)

\* C6: starting from scale 1, after every wheel event, whatever its delta
\* and cursor position, the scale of the interactive viewport is at least
\* 0.1 and at most 2.0.
C6_WheelScaleClamped ==
    /\ RLeq(MIN_SCALE, viewTransform.scale)
    /\ RLeq(viewTransform.scale, MAX_SCALE)

\* two zoom-in events in a row, the second one clamped at 2.0
C6_Witness ==
    /\ nWheel = 2
    /\ viewTransform.scale = MAX_SCALE

\* C7: in every reachable state of the visualizer, auto-fitted
\* non-interactive views included, the viewport scale lies in [0.1, 2.0].
C7_ScaleAlwaysInRange ==
    LET scale == viewTransform.scale
    IN  ~RLess(scale, MIN_SCALE) /\ ~RLess(MAX_SCALE, scale)

\* the graph-space point under the client point p for viewport vt
GraphPoint(vt, rect, p) ==
    <<RDiv(RSub(Q(p[1] - rect.left), vt.x), vt.scale),
      RDiv(RSub(Q(p[2] - rect.top), vt.y), vt.scale)>>

\* C8: a wheel event at screen point P, clamped or not, leaves the
\* graph-space point under P where it was: (P - offset)/scale is the same
\* before and after.
C8_ZoomAnchorInvariant ==
    [][nWheel' = nWheel + 1
       => GraphPoint(viewTransform', containerRect, pointer')
          = GraphPoint(viewTransform, containerRect, pointer')]_vars

\* a single wheel event whose new scale was clamped to 0.1, away from the
\* viewport origin
C8_Witness ==
    /\ nWheel = 1
    /\ viewTransform.scale = MIN_SCALE
    /\ viewTransform.x # Q(50)

\* C9: a pointer-down on a node body starts dragging that node, records
\* its pre-drag position and the anchor screen point, and leaves no node
\* selected.
C9_NodeDownClearsSelection ==
    [][handleNodeMouseDown(MaxInputs)
       => /\ draggingNode' # Null
          /\ LET d == draggingNode'[1]
                 n == NodeOf(localGraphData.nodes, d.id)
             IN  d.initialX = n.x /\ d.initialY = n.y
          /\ interactionStartRef' = pointer'
          /\ selectedNode' = Null]_vars

\* C10: a wheel event that arrives while a node is being dragged leaves
\* the viewport scale and offset unchanged.
C10_NoZoomWhileDragging ==
    [][(draggingNode # Null /\ nWheel' = nWheel + 1)
       => viewTransform' = viewTransform]_vars


\* a pan gesture is under way and nothing but pointer-moves has been
\* handled since the pointer-down that started it
PanningSinceStart ==
    /\ isPanning
    /\ draggingNode = Null
    /\ panStart # Null
    /\ nWheel = panStart[1].nWheel
    /\ nDown = panStart[1].nDown

\* C11, of a pan that started with no node pressed and has not been
\* interrupted: the viewport offset is the offset at pan start
\* plus the raw screen displacement of the pointer since pan start, whatever
\* the scale and however many pointer-moves were handled; a pointer-move
\* leaves the state Panning and the scale as it was.
C11_PanFollowsPointer ==
    /\ [](PanningSinceStart =>
            LET start == panStart[1]
            IN  /\ viewTransform.x =
                     RAdd(start.viewTransform.x,
                          Q(interactionStartRef[1] - start.p[1]))
                /\ viewTransform.y =
                     RAdd(start.viewTransform.y,
                          Q(interactionStartRef[2] - start.p[2]))
                /\ viewTransform.scale = start.viewTransform.scale)
    /\ [][(PanningSinceStart /\ handleMouseMove)
          => /\ isPanning' /\ draggingNode' = Null
             /\ interactionStartRef' = pointer'
             /\ viewTransform'.scale = viewTransform.scale]_vars

\* a pan at a scale other than 1 that has handled two pointer-moves and
\* has moved the viewport
C11_Witness ==
    /\ PanningSinceStart
    /\ nMoves = 2
    /\ viewTransform.scale # Q(1)
    /\ viewTransform.x # panStart[1].viewTransform.x


\* C12: every pointer-move of a node drag leaves the dragged node at its
\* recorded pre-drag position plus (pointer - anchor) / scale on each axis,
\* however many pointer-moves came before.
C12_DragFollowsPointer ==
    [][(draggingNode # Null /\ handleMouseMove)
       => LET d == draggingNode[1]
              n == NodeOf(localGraphData'.nodes, d.id)
              dx == Q(pointer'[1] - interactionStartRef'[1])
              dy == Q(pointer'[2] - interactionStartRef'[2])
          IN  /\ draggingNode' = draggingNode
              /\ RMul(RSub(n.x, d.initialX), viewTransform'.scale) = dx
              /\ RMul(RSub(n.y, d.initialY), viewTransform'.scale) = dy]_vars

\* a drag at a scale other than 1 that has handled two pointer-moves and
\* holds the node away from its pre-drag position
C12_Witness ==
    /\ draggingNode # Null
    /\ nMoves = 2
    /\ viewTransform.scale # Q(1)
    /\ NodeOf(localGraphData.nodes, draggingNode[1].id).x
         # draggingNode[1].initialX


\* C13, with the pan taken to have no node pressed: a pointer-up, or the
\* pointer leaving the canvas, ends the gesture: afterwards no pan and no
\* node drag is active, and such a pan ends in Idle with no node selected.
C13_PointerUpEndsGesture ==
    [][(isInteractive /\ handleMouseUp)
       => /\ ~isPanning'
          /\ draggingNode' = Null
          /\ (isPanning /\ draggingNode = Null) => selectedNode' = Null]_vars

\* a pan that moved the viewport has been ended by a pointer-up, and
\* nothing is selected
C13_Witness ==
    /\ ~isPanning
    /\ draggingNode = Null
    /\ selectedNode = Null
    /\ panStart # Null
    /\ nDown = panStart[1].nDown
    /\ nWheel = panStart[1].nWheel
    /\ nMoves > 0
    /\ viewTransform # panStart[1].viewTransform


\* C14: a pointer-down on empty canvas clears the selection, enters
\* Panning and records the anchor screen point; the graph and the viewport
\* are as they were before the pointer-down.
C14_BackgroundDownStartsPan ==
    [][(isInteractive /\ handleBackgroundMouseDown(MaxInputs))
       => /\ selectedNode' = Null
          /\ isPanning'
          /\ interactionStartRef' = pointer'
          /\ localGraphData' = localGraphData
          /\ viewTransform' = viewTransform]_vars

\* a pointer-down on empty canvas has just cleared a selection
C14_Witness ==
    /\ isPanning
    /\ selectedNode = Null
    /\ panStart # Null
    /\ panStart[1].selectedNode # Null
    /\ panStart[1].nDown = nDown
    /\ nMoves = 0


\* C15: a pointer-move of a node drag changes nothing of the graph but the
\* x and y of the dragged node: its id, name, type and pins, every other
\* node, the connections and the variables stay as they were.
C15_MoveChangesOnlyPosition ==
    [][(draggingNode # Null /\ handleMouseMove)
       => /\ Len(localGraphData'.nodes) = Len(localGraphData.nodes)
          /\ \A i \in 1..Len(localGraphData.nodes) :
               LET old == localGraphData.nodes[i]
                   new == localGraphData'.nodes[i]
               IN  IF old.id = draggingNode[1].id
                   THEN [new EXCEPT !.x = old.x, !.y = old.y] = old
                   ELSE new = old
          /\ localGraphData'.connections = localGraphData.connections
          /\ localGraphData'.variables = localGraphData.variables]_vars

\* a drag has moved its node while another node is where the graph put it
C15_Witness ==
    /\ draggingNode # Null
    /\ nMoves > 0
    /\ \E i, j \in 1..Len(localGraphData.nodes) :
          /\ localGraphData.nodes[i].id = draggingNode[1].id
          /\ localGraphData.nodes[i] # focusGraph.nodes[i]
          /\ i # j
          /\ localGraphData.nodes[j] = focusGraph.nodes[j]


\* the position of the pin of that id, from the nodes of the local graph
PinPositionIn(nodes, pinId) ==
    getPinPosition(pinToNodeMapGet(nodes, pinId)[1], pinId)

HasPin(nodes, pinId) == pinToNodeMapGet(nodes, pinId) # Null

\* C16: in every rendered scene each connection whose two pins exist is
\* drawn as one path from the position of its from-pin to the position of
\* its to-pin, both derived from the node coordinates of the graph rendered
\* in that scene, also while a node is being dragged.
C16_PathsFollowNodes ==
    Rendered =>
      \A i \in 1..Len(localGraphData.connections) :
        LET conn == localGraphData.connections[i]
        IN  (HasPin(localGraphData.nodes, conn.fromPinId)
             /\ HasPin(localGraphData.nodes, conn.toPinId))
            => /\ Scene.paths[i] # Null
               /\ Scene.paths[i][1].start =
                    PinPositionIn(localGraphData.nodes, conn.fromPinId)
               /\ Scene.paths[i][1].end =
                    PinPositionIn(localGraphData.nodes, conn.toPinId)

C18_EmptyGraphScene ==
    Len(localGraphData.nodes) = 0
    => Scene = [kind |-> "empty", paths |-> <<>>, nodes |-> <<>>]

\* a graph without nodes, but with a connection, is on screen
C18_Witness ==
    /\ Len(localGraphData.nodes) = 0
    /\ Len(localGraphData.connections) > 0
    /\ Scene.kind = "empty"

\* the requests whose resolution the step handles
Resolved == {r \in pending : r \notin pending'}

\* C19: when a request was still unresolved at the time a later request of
\* the same flow was issued, handling its result or failure changes nothing
\* of the displayed state (guide, graphs, code, error, loading flag): a
\* resolution that changes the displayed state is that of the latest request
C19_StaleResolutionIgnored ==
    [][\A r \in Resolved : r.id \in superseded => UNCHANGED displayVars]_vars

\* a request that a later one of its flow overtook has been resolved while
\* the later one is still awaited
C19_Witness ==
    /\ lastResolved # Null
    /\ lastResolved[1] \in superseded
    /\ \E r \in pending : r.id > lastResolved[1]

\* C20: the output panel of either flow shows exactly one of the loading
\* skeleton, the error banner, the placeholder and the populated view; it is
\* the skeleton exactly when isLoading holds, which it does whenever the
\* mounted component awaits a request; the banner exactly when not loading
\* with an error set; the populated view only when not loading, with no
\* error and with content
C20_OnePanelState ==
    LET loading == IF mode = "cpp-to-bp" THEN isLoading ELSE creatorIsLoading
        err == IF mode = "cpp-to-bp" THEN error ELSE creatorError
        content == IF mode = "cpp-to-bp"
                      THEN hasContent(blueprintGuide, blueprintGraphs)
                      ELSE creatorCppCode # Null
        flow == IF mode = "cpp-to-bp" THEN "generate" ELSE "convert"
    IN  /\ Cardinality(Panel) = 1
        /\ "LoadingSkeleton" \in Panel <=> loading
        /\ (\E r \in Requests(flow) : r.id \notin orphaned) => loading
        /\ "ErrorBanner" \in Panel <=> (~loading /\ err # Null)
        /\ "Populated" \in Panel => (~loading /\ err = Null /\ content)

\* an error is set while a generated guide and its graphs are still held,
\* and no request is awaited
C20_Witness ==
    /\ mode = "cpp-to-bp"
    /\ ~isLoading
    /\ error # Null
    /\ hasContent(blueprintGuide, blueprintGraphs)
    /\ lastResolved # Null

NodeIdsOf(g) == [i \in 1..Len(g.nodes) |-> g.nodes[i].id]

\* the pin ids of the graph, node after node in pin-list order
RECURSIVE PinIdSeq(_)
PinIdSeq(nodes) ==
    IF nodes = <<>> THEN <<>>
    ELSE [j \in 1..Len(Head(nodes).pins) |-> Head(nodes).pins[j].id]
         \o PinIdSeq(Tail(nodes))

Distinct(s) == Cardinality(Range(s)) = Len(s)

IsGenerated(id) == Len(id) = 3

HomeViewTransform == [x |-> Q(50), y |-> Q(50), scale |-> Q(1)]

\* C22: a step that hands the visualizer a new graph value leaves the local
\* graph equal to that value and the selection empty, and in interactive
\* mode the viewport at offset (50, 50) and scale 1
C22_NewGraphReplacesLocal ==
    [][graphData' # graphData =>
         /\ localGraphData' = graphData'
         /\ selectedNode' = Null
         /\ (isInteractive => viewTransform' = HomeViewTransform)]_vars

\* a new graph value has just arrived after a node had been dragged away
\* from its place: the scene rendered last still reads the moved node
C22_Witness ==
    /\ lastEdit # "mount"
    /\ localGraphData = graphData
    /\ viewTransform = HomeViewTransform
    /\ nMoves = 1
    /\ peakDisp > DRAG_THRESHOLD
    /\ \E i \in 1..Len(sceneNodes) :
          /\ i <= Len(graphData.nodes)
          /\ sceneNodes[i].id = graphData.nodes[i].id
          /\ <<sceneNodes[i].x, sceneNodes[i].y>>
               # <<graphData.nodes[i].x, graphData.nodes[i].y>>

\* the rectangle a node occupies: its width is the node width, its height
\* header height + vertical offset + max(in pins, out pins) * pin row height
NodeRect(n) ==
    LET ins == Cardinality({j \in 1..Len(n.pins) : n.pins[j].direction = "in"})
        outs == Cardinality({j \in 1..Len(n.pins) : n.pins[j].direction = "out"})
        rows == IF ins > outs THEN ins ELSE outs
    IN  [minX |-> n.x, minY |-> n.y,
         maxX |-> RAdd(n.x, Q(220)),
         maxY |-> RAdd(n.y, Q(30 + 10 + rows * 22))]

BoxContains(outer, inner) ==
    /\ RLeq(outer.minX, inner.minX)
    /\ RLeq(outer.minY, inner.minY)
    /\ RLeq(inner.maxX, outer.maxX)
    /\ RLeq(inner.maxY, outer.maxY)

StrictlyOutside(rect, box) ==
    \/ RLess(rect.maxX, box.minX)
    \/ RLess(box.maxX, rect.minX)
    \/ RLess(rect.maxY, box.minY)
    \/ RLess(box.maxY, rect.minY)

\* C23: the viewport of a non-interactive visualizer fitted to its graph has
\* the scale min((containerW - 2 padding) / boundsW,
\* (containerH - 2 padding) / boundsH, 1), which is at most 1, and an offset
\* that leaves the scaled bounding box equal margins left and right, and
\* equal margins above and below
C23_AutoFitCentred ==
    LET box == Bounds(localGraphData.nodes)
        boundsW == RSub(box.maxX, box.minX)
        boundsH == RSub(box.maxY, box.minY)
        cw == Q(containerRect.width)
        ch == Q(containerRect.height)
        vt == viewTransform
        fitW == RDiv(RSub(cw, Q(100)), boundsW)
        fitH == RDiv(RSub(ch, Q(100)), boundsH)
        left == RAdd(RMul(box.minX, vt.scale), vt.x)
        right == RAdd(RMul(box.maxX, vt.scale), vt.x)
        top == RAdd(RMul(box.minY, vt.scale), vt.y)
        bottom == RAdd(RMul(box.maxY, vt.scale), vt.y)
    IN  (~isInteractive /\ Len(localGraphData.nodes) > 0) =>
          /\ RLeq(vt.scale, fitW) /\ RLeq(vt.scale, fitH) /\ RLeq(vt.scale, Q(1))
          /\ vt.scale \in {fitW, fitH, Q(1)}
          /\ left = RSub(cw, right)
          /\ top = RSub(ch, bottom)

\* a fitted view whose scale is the height ratio, below the width ratio and
\* below 1, of a graph whose bounds do not start at the origin
C23_Witness ==
    LET box == Bounds(localGraphData.nodes)
        fitW == RDiv(Q(containerRect.width - 100), RSub(box.maxX, box.minX))
        fitH == RDiv(Q(containerRect.height - 100), RSub(box.maxY, box.minY))
    IN  /\ ~isInteractive
        /\ viewTransform.scale = fitH
        /\ RLess(fitH, fitW)
        /\ RLess(fitH, Q(1))
        /\ box.minX # Q(0)

\* C24: the bounding box contains the rectangle of every node, and when the
\* rectangle of the last node lies strictly outside the box of the nodes
\* before it, the box of all nodes contains that box and is larger
C24_BoundsGrow ==
    LET nodes == localGraphData.nodes
        before == SubSeq(nodes, 1, Len(nodes) - 1)
        added == nodes[Len(nodes)]
    IN  Len(nodes) > 1 =>
          /\ \A n \in Range(nodes) : BoxContains(Bounds(nodes), NodeRect(n))
          /\ StrictlyOutside(NodeRect(added), Bounds(before)) =>
               /\ BoxContains(Bounds(nodes), Bounds(before))
               /\ Bounds(nodes) # Bounds(before)

\* the last node of a fitted graph lies strictly outside the box of the
\* nodes before it, to the right of it or below it
C24_Witness ==
    LET nodes == localGraphData.nodes
        before == SubSeq(nodes, 1, Len(nodes) - 1)
    IN  /\ ~isInteractive
        /\ Len(nodes) > 1
        /\ StrictlyOutside(NodeRect(nodes[Len(nodes)]), Bounds(before))
        /\ viewTransform.scale # Q(1)

\* how many pins before position j of the node's pin list have the direction
\* of the pin at j
IndexInDirection(node, j) ==
    Cardinality({k \in 1..(j - 1) :
                    node.pins[k].direction = node.pins[j].direction})

\* the offset of the pin at position j from the node's top-left corner
PinOffset(node, j) ==
    LET pos == getPinPosition(node, node.pins[j].id)
    IN  [x |-> RSub(pos.x, node.x), y |-> RSub(pos.y, node.y)]

PinOffsetX(node, j) ==
    IF node.pins[j].direction = "in" THEN Q(0) ELSE Q(220)

\* C25 as stated: the offset of a pin with index i among the pins of its
\* direction is x = 0 for an in pin, x = node width for an out pin, and
\* y = header height + top padding + i * pin row height
C25_PinOffsetRowTop ==
    \A n \in Range(localGraphData.nodes) : \A j \in 1..Len(n.pins) :
        PinOffset(n, j) = [x |-> PinOffsetX(n, j),
                           y |-> Q(30 + 10 + IndexInDirection(n, j) * 22)]

\* C25 as amended: the same x, and y = header height + top padding
\* + i * pin row height + half a pin row height, the middle of the pin's row
C25_PinOffsetRowMiddle ==
    \A n \in Range(localGraphData.nodes) : \A j \in 1..Len(n.pins) :
        PinOffset(n, j) = [x |-> PinOffsetX(n, j),
                           y |-> Q(30 + 10 + IndexInDirection(n, j) * 22 + 11)]

\* a node that has been dragged away from its place and has an in pin of
\* index 1 that follows an out pin in its pin list
C25_Witness ==
    \E i \in 1..Len(localGraphData.nodes) :
        LET n == localGraphData.nodes[i]
        IN  /\ <<n.x, n.y>> # <<malformedGraph.nodes[i].x, malformedGraph.nodes[i].y>>
            /\ \E j \in 2..Len(n.pins) :
                  /\ n.pins[j].direction = "in"
                  /\ IndexInDirection(n, j) = 1
                  /\ n.pins[j - 1].direction = "out"

\* C26: in a non-interactive visualizer no pointer-down, pointer-move,
\* pointer-up, mouse-leave or wheel event changes the viewport, the local
\* graph with its node positions, the selection or the pan and drag state
C26_NonInteractiveInert ==
    [][~isInteractive =>
         UNCHANGED <<viewTransform, localGraphData, selectedNode, isPanning,
                     draggingNode, interactionStartRef, wasDraggedRef>>]_vars

\* a non-interactive visualizer has handled a pointer-down, a pointer-move
\* and a wheel event
C26_Witness ==
    /\ ~isInteractive
    /\ nDown > 0
    /\ nMoves > 0
    /\ nWheel > 0
    /\ pointer \in Points

\* C27: a wheel event leaves the local graph (node positions, connections,
\* variables), the graph value, the selection and the pan and drag state as
\* they were; of the visualizer's state it changes the viewport only
C27_WheelChangesViewportOnly ==
    [][nWheel' # nWheel =>
         UNCHANGED <<localGraphData, graphData, selectedNode, isPanning,
                     draggingNode, interactionStartRef, wasDraggedRef>>]_vars

\* a wheel event has zoomed the view while a node was pressed
C27_Witness ==
    /\ nWheel > 0
    /\ nDown > 0
    /\ viewTransform.scale # Q(1)
    /\ draggingNode # Null

\* C28: a pan and a node drag are never both active, whatever the order of
\* the pointer events, a pointer-down before the pointer-up of the gesture
\* in progress included
C28_NeverPanAndDrag == ~(isPanning /\ draggingNode # Null)

\* C11: while a pan is active and no wheel event has been handled since it
\* started, after every pointer-move the viewport offset is the offset at
\* pan start plus the displacement of the pointer since pan start, and the
\* scale is the scale at pan start
C11_PanOffsetTracksPointer ==
    (isPanning /\ panStart # Null /\ nMoves > 0
       /\ nWheel = panStart[1].nWheel) =>
        LET start == panStart[1]
        IN  /\ viewTransform.x =
                 RAdd(start.viewTransform.x, Q(pointer[1] - start.p[1]))
            /\ viewTransform.y =
                 RAdd(start.viewTransform.y, Q(pointer[2] - start.p[2]))
            /\ viewTransform.scale = start.viewTransform.scale

\* C13: a pointer-up, or the pointer leaving the canvas, leaves no pan and
\* no node drag active, and when a pan was active it leaves no node selected
C13_PanEndsUnselected ==
    [][(isInteractive /\ handleMouseUp)
       => /\ ~isPanning'
          /\ draggingNode' = Null
          /\ (isPanning => selectedNode' = Null)]_vars

\* the position of the node of the gesture in the local graph after the step
GestureNodePosition ==
    LET n == NodeOf(localGraphData'.nodes, draggingNode[1].id)
    IN  <<n.x, n.y>>

\* the position recorded for the node of the gesture at its pointer-down
GestureNodeInitial == <<draggingNode[1].initialX, draggingNode[1].initialY>>

\* C29 as stated: a gesture on a node that ends with the node selected
\* leaves the node exactly where it was before the pointer-down
C29_ClickKeepsPosition ==
    [][(EndsNodeGesture /\ EndsSelected)
       => GestureNodePosition = GestureNodeInitial]_vars

\* C29 as amended: a gesture on a node that ends with the node selected has
\* had no pointer-move further than 5px from the anchor on either axis; every
\* pointer-move of it put the node at its position before the pointer-down
\* plus that displacement divided by the scale, and the pointer-up moves
\* nothing, so the node is where it was before the pointer-down when no
\* pointer-move of the gesture left the anchor
C29_ClickMovesWithinThreshold ==
    [][/\ (EndsNodeGesture /\ EndsSelected)
          => /\ peakDisp <= DRAG_THRESHOLD
             /\ localGraphData' = localGraphData
             /\ peakDisp = 0 => GestureNodePosition = GestureNodeInitial
       /\ MovesNode]_vars

\* a gesture on a node has ended with the node selected and 5px away, on
\* screen, from where it was before the pointer-down, at a scale other than 1
C29_Witness ==
    /\ selectedNode # Null
    /\ draggingNode = Null
    /\ peakDisp = 5
    /\ nMoves = 1
    /\ viewTransform.scale # Q(1)
    /\ NodeOf(localGraphData.nodes, selectedNode[1].id).x
         # NodeOf(focusGraph.nodes, selectedNode[1].id).x

\* C30: a pointer-up that ends a gesture on a node selects nothing when some
\* pointer-move of the gesture was further than 5px from the anchor, wherever
\* the pointer is at the pointer-up; wasDraggedRef goes back to false only in
\* a pointer-down on a node
C30_RealDragNeverSelects ==
    [][/\ (EndsNodeGesture /\ peakDisp > DRAG_THRESHOLD) => selectedNode' = Null
       /\ (wasDraggedRef /\ ~wasDraggedRef')
          => (nDown' = nDown + 1 /\ draggingNode' # Null
              /\ interactionStartRef' = pointer')]_vars

\* a gesture on a node went further than 5px from the anchor, came back to
\* the anchor and was released there, and no node is selected
C30_Witness ==
    /\ draggingNode = Null
    /\ wasDraggedRef
    /\ peakDisp > DRAG_THRESHOLD
    /\ nMoves = 2
    /\ pointer = interactionStartRef
    /\ selectedNode = Null
    /\ ~isPanning

\* C31: a step in which an editor operation changes the graph of the
\* blueprint being edited leaves the offset and the scale of the
\* visualizer's viewport as they were
C31_EditKeepsViewport ==
    [][graphData' # graphData => viewTransform' = viewTransform]_vars

\* C32: a step in which an editor operation changes the graph, taken when no
\* gesture is under way, leaves every node the visualizer shows, and goes on
\* showing, at the position it had, the position a drag gave it included
C32_DraggedPositionSurvivesEdit ==
    [][(graphData' # graphData /\ draggingNode = Null)
       => \A n \in Range(localGraphData.nodes) :
            \A m \in Range(localGraphData'.nodes) :
               m.id = n.id => (m.x = n.x /\ m.y = n.y)]_vars

\* C33: a step that deletes a custom event or a custom function removes no
\* node of the built-in template from the graph, whatever the name of the
\* definition
C33_DeleteKeepsTemplateNodes ==
    [][(lastEdit' \in {"handleDeleteEvent", "handleDeleteFunction"}
        /\ graphData' # graphData)
       => \A n \in Range(graphData.nodes) :
            ~IsGenerated(n.id)
            => \E m \in Range(graphData'.nodes) : m.id = n.id]_vars

\* a pin without its id
PinShape(p) ==
    [name |-> p.name, type |-> p.type, direction |-> p.direction,
     dataType |-> p.dataType]

PinShapes(pins) == [j \in 1..Len(pins) |-> PinShape(pins[j])]

\* the pins the signature of a function asks of its call nodes
Signature(f) ==
    <<[name |-> <<>>, type |-> "exec", direction |-> "in", dataType |-> "Exec"],
      [name |-> <<>>, type |-> "exec", direction |-> "out", dataType |-> "Exec"]>>
    \o [j \in 1..Len(f.parameters) |->
          [name |-> f.parameters[j].name, type |-> "data", direction |-> "in",
           dataType |-> f.parameters[j].type]]
    \o (IF f.returnType = "None" THEN <<>>
        ELSE <<[name |-> <<"R", "e", "t", "u", "r", "n", " ",
                           "V", "a", "l", "u", "e">>,
                type |-> "data", direction |-> "out",
                dataType |-> f.returnType]>>)

\* the nodes the function tab has added: the call nodes of the functions
CallNodes == {n \in Range(graphData.nodes) :
                 n.type = "function" /\ IsGenerated(n.id)}

NameRefused(self) ==
    LET trimmedName == trim(newFunctionName)
    IN  \/ trimmedName = <<>>
        \/ \E f \in Range(customFunctions) :
              /\ f.id # self
              /\ toLowerCase(f.name) = toLowerCase(trimmedName)

\* C35: the names of the custom functions are pairwise distinct ignoring
\* case, and a create or an update submitted with a name that is empty once
\* trimmed or that another function has, ignoring case, changes neither the
\* function list nor the graph
C35_FunctionNamesDistinct ==
    /\ [](\A i, j \in 1..Len(customFunctions) :
            i # j => toLowerCase(customFunctions[i].name)
                       # toLowerCase(customFunctions[j].name))
    /\ [][/\ (lastEdit' = "handleCreateFunction" /\ NameRefused(Null))
             => UNCHANGED <<customFunctions, graphData>>
          /\ (lastEdit' = "handleUpdateFunction" /\ editingFunction # Null
              /\ NameRefused(editingFunction[1].id))
             => UNCHANGED <<customFunctions, graphData>>]_vars

\* two functions are listed, the form edits one of them under the name of
\* the other in another case, and the update has just been refused
C35_Witness ==
    /\ Len(customFunctions) = 2
    /\ lastEdit = "handleUpdateFunction"
    /\ editingFunction # Null
    /\ trim(newFunctionName) # editingFunction[1].name
    /\ \E f \in Range(customFunctions) :
          /\ f.id # editingFunction[1].id
          /\ f.name # trim(newFunctionName)
          /\ toLowerCase(f.name) = toLowerCase(trim(newFunctionName))

\* C36: whenever the C++-to-Blueprint flow holds an error message, the guide
\* is empty and the list of graphs is empty
C36_ErrorExcludesResult ==
    error # Null => (blueprintGuide = "" /\ blueprintGraphs = <<>>)

\* C37: a loading flag is set only while a request of its flow, issued by
\* the mounted component, awaits its resolution; the step that handles the
\* resolution of such a request clears the flag and leaves either no error
\* and the result of the response, or an error and no result; and every
\* loading flag that is set is cleared in the end
C37_LoadingEnds ==
    /\ [](isLoading => Requests("generate") # {})
    /\ [](creatorIsLoading
          => \E r \in Requests("convert") : r.id \notin orphaned)
    /\ [][\A r \in Resolved :
            /\ r.flow = "generate"
               => /\ ~isLoading'
                  /\ \/ /\ error' = Null
                        /\ \E response \in GuideResponses :
                              /\ blueprintGuide' = response.guide
                              /\ blueprintGraphs' = response.blueprintGraphs
                     \/ /\ error' # Null
                        /\ blueprintGuide' = ""
                        /\ blueprintGraphs' = <<>>
            /\ (r.flow = "convert" /\ r.id \notin orphaned)
               => /\ ~creatorIsLoading'
                  /\ \/ creatorError' = Null /\ creatorCppCode' # Null
                     \/ creatorError' # Null /\ creatorCppCode' = Null]_vars
    /\ (isLoading ~> ~isLoading)
    /\ (creatorIsLoading ~> ~creatorIsLoading)

\* a generation request has been rejected: the flag is cleared, the error is
\* set and there is no result
C37_Witness ==
    /\ lastResolved # Null
    /\ pending = {}
    /\ ~isLoading
    /\ error = Just(GuideFailure("fetch failed"))
    /\ blueprintGuide = ""

\* the output panel shows the visualizer tab in focus mode
FocusShown == VisualizerShown /\ viewMode = "focus"

\* C38: whenever the output panel shows a graph in focus mode, the selected
\* index is an index of the list of graphs; a step that changes the list
\* leaves the index at 0, and the render that follows the change, made with
\* the index as it was, shows focus mode only with an index of the new list
C38_SelectedIndexValid ==
    /\ [](FocusShown => selectedGraphIndex \in 0..(Len(blueprintGraphs) - 1))
    /\ [][blueprintGraphs' # blueprintGraphs
          => /\ selectedGraphIndex' = 0
             /\ FocusShown'
                => selectedGraphIndex \in 0..(Len(blueprintGraphs') - 1)]_vars

\* a second generation has put a list of one graph on the visualizer tab,
\* which had stayed open in focus mode
C38_Witness ==
    /\ FocusShown
    /\ nIssued > 1
    /\ Len(blueprintGraphs) = 1
    /\ selectedGraphIndex = 0

AddNodeEdits == {"handleAddVariableNode", "handleAddEventNode",
                 "handleAddFunctionCallNode", "handleAddCommonNode"}

\* C39: a step that adds a variable node, an event node, a function call
\* node or a library node leaves the node list one longer, with the nodes it
\* had in their places and unchanged before the new node, and leaves the
\* connections and the variables as they were
C39_AddNodeAppendsOne ==
    [][(lastEdit' \in AddNodeEdits /\ idCounter' # idCounter)
       => /\ Len(graphData'.nodes) = Len(graphData.nodes) + 1
          /\ SubSeq(graphData'.nodes, 1, Len(graphData.nodes)) = graphData.nodes
          /\ graphData'.connections = graphData.connections
          /\ graphData'.variables = graphData.variables]_vars

\* one of the four operations has just added a node after the nodes of the
\* template, which has connections and variables
C39_Witness ==
    /\ lastEdit \in AddNodeEdits
    /\ Len(graphData.nodes) > Len(initialGraphData.nodes)
    /\ IsGenerated(graphData.nodes[Len(graphData.nodes)].id)
    /\ graphData.connections # <<>>
    /\ graphData.variables # <<>>

====
